---- MODULE Spec2Model ----
(***************************************************************************)
(* Tiled raster acquisition and mosaic pipeline of llm-geoprocessing.      *)
(*                                                                         *)
(* Two programs are modelled.  The GEE plugin service (gee_geoprocess.py)  *)
(* answers one HTTP request per geoprocess action: it validates the        *)
(* request, builds the image, resolves CRS and scale, plans the tile grid  *)
(* and asks the backend for one download URL per tile.  The geoprocess     *)
(* agent (geoprocess_agent.py, runtime_executor.py) walks the actions of a *)
(* job, calls the service, downloads the tiles into a staging directory    *)
(* and merges them with GDAL.                                              *)
(*                                                                         *)
(* Coordinates and scales are integers of one common unit, so that floor   *)
(* and ceil of a quotient are exact.                                       *)
(***************************************************************************)
EXTENDS Integers, Sequences, FiniteSets, TLC

(***************************************************************************)
(* Bounds of the model.                                                    *)
(***************************************************************************)
\* projected coordinates the backend may report lie in -CoordSpan..CoordSpan
CoordSpan == 3
\* largest pixel scale (units per pixel), requested or native
MaxScale == 3
\* largest tile edge in pixels
MaxTileSize == 2
\* largest tile-count ceiling a request may carry
MaxTilesCap == 4
\* number of bands of the product when a request lists none
ProductBands == 2
\* concurrent callers of geoprocess
NumProcs == 2
\* most actions in one job
MaxActions == 2
\* most rows and most columns of a tiled response
MaxGridDim == 2
\* readings of the wall clock (datetime.now) over all runs
MaxClock == 4
\* the same, where geoprocess is called again and again with every download
\* succeeding
MaxClockRepeat == 7
\* the projected extent of the sample region is taken at this many offsets
\* and sizes around 23.8 km x 24.5 km
ScenarioJitter == 3
\* largest width and height, in pixels, of a region given to the payload sizing
MaxPx == 12
\* the payload ceiling of the sizing applied on its own, in bytes (the
\* service's is limit_bytes; the arithmetic is the same on this scale)
PayloadCeiling == 48
\* width in bits of the quality values given to the cloud masks (bits
\* 0..QaBits-1 vary, the higher bits are 0)
QaBits == 12

VARIABLES
    \* ---- GEE plugin service: one request handler ----
    _INITIALIZED,   \* gee_geoprocess.py: module global set by _init_ee
    epc,            \* position of the handler
    ereq,           \* query parameters of the request being served
    ecrs,           \* resolved (crs_nat, scale_nat)
    egrid,          \* (tiles, meta) returned by _tile_rects
    exports,        \* getDownloadURL calls issued so far: params, tile, outcome
    out_tiles,      \* out_tiles list of the handler
    backend,        \* every call sent to the compute backend, in order
    eerr,           \* error the handler ended with
    edetail,        \* what the detail string of that error is formatted from
    \* ---- grid planner applied on its own ----
    plan,           \* inputs and result of one _tile_rects call
    \* ---- helpers applied on their own ----
    hcall,          \* the helper called, its arguments and what it returned
    \* ---- geoprocess agent ----
    run,            \* per caller: the frame of its geoprocess() call
    ctx_run_id,     \* per caller: chatdb.context._run_id
    staging,        \* per output id: files under TILES_ROOT / out_id
    merged,         \* files under MERGED_ROOT
    clock           \* datetime.now(), as a counter

avars == <<run, ctx_run_id, staging, merged, clock>>

evars == <<_INITIALIZED, epc, ereq, ecrs, egrid, exports, out_tiles, backend, eerr, edetail>>

vars == <<evars, plan, hcall, avars>>

Max(a, b) == IF a >= b THEN a ELSE b
Min(a, b) == IF a <= b THEN a ELSE b

\* math.floor(a / s) and math.ceil(a / s) for s > 0
Floor(a, s) == a \div s
\* variant: the quotient truncated instead of rounded up
Ceil_truncating(a, s) == a \div s
Ceil(a, s) == -((-a) \div s)

(***************************************************************************)
(* GEE plugin service: helpers                                             *)
(***************************************************************************)

\* variant: a box given in the wrong order is put in order
_parse_bbox_reorder(parts) ==
    IF Len(parts) # 4
    THEN [ok |-> FALSE, error |-> "bbox_format"]
    ELSE [ok |-> TRUE, region |-> <<Min(parts[1], parts[3]), Min(parts[2], parts[4]),
                                    Max(parts[1], parts[3]), Max(parts[2], parts[4])>>]

\* _parse_bbox on the list of numbers the string splits into: the error it
\* raises, or the region rectangle
_parse_bbox(parts) ==
    IF Len(parts) # 4
    THEN [ok |-> FALSE, error |-> "bbox_format"]
    ELSE LET xmin == parts[1]
             ymin == parts[2]
             xmax == parts[3]
             ymax == parts[4]
         IN  IF xmin >= xmax \/ ymin >= ymax
             THEN [ok |-> FALSE, error |-> "bbox_dimensions"]
             ELSE IF (IF xmin < 0 THEN -xmin ELSE xmin) > 360
                     \/ (IF ymin < 0 THEN -ymin ELSE ymin) > 180
                  THEN [ok |-> FALSE, error |-> "bbox_units"]
                  ELSE [ok |-> TRUE, region |-> <<xmin, ymin, xmax, ymax>>]

\* variant: the origin rounded to the nearest pixel edge inside the region
_align_to_grid_inward(minx, miny, maxx, maxy, scale) ==
    LET origin_x == Ceil(minx, scale) * scale
        origin_y == Floor(maxy, scale) * scale
    IN  [origin_x |-> origin_x,
         origin_y |-> origin_y,
         grid_minx |-> origin_x,
         grid_miny |-> Floor(miny, scale) * scale,
         grid_maxx |-> Ceil(maxx, scale) * scale,
         grid_maxy |-> origin_y]

_align_to_grid(minx, miny, maxx, maxy, scale) ==
    LET origin_x == Floor(minx, scale) * scale
        origin_y == Ceil(maxy, scale) * scale
    IN  [origin_x |-> origin_x,
         origin_y |-> origin_y,
         grid_minx |-> origin_x,
         grid_miny |-> Floor(miny, scale) * scale,
         grid_maxx |-> Ceil(maxx, scale) * scale,
         grid_maxy |-> origin_y]

\* the rectangle of tile (r, c): body of the two loops of _tile_rects
_tile_rect(g, tile_w, tile_h, r, c) ==
    LET y_top == g.origin_y - r * tile_h
        y_bot == y_top - tile_h
        x_left == g.origin_x + c * tile_w
        x_right == x_left + tile_w
    IN  [r |-> r, c |-> c, bbox_crs |-> <<x_left, y_bot, x_right, y_top>>]

\* inner loop: for c in range(cols)
RECURSIVE _tiles_of_row(_, _, _, _, _, _)
_tiles_of_row(g, tile_w, tile_h, r, c, cols) ==
    IF c >= cols
    THEN <<>>
    ELSE <<_tile_rect(g, tile_w, tile_h, r, c)>>
         \o _tiles_of_row(g, tile_w, tile_h, r, c + 1, cols)

\* outer loop: for r in range(rows)
RECURSIVE _tiles_of_rows(_, _, _, _, _, _)
_tiles_of_rows(g, tile_w, tile_h, r, rows, cols) ==
    IF r >= rows
    THEN <<>>
    ELSE _tiles_of_row(g, tile_w, tile_h, r, 0, cols)
         \o _tiles_of_rows(g, tile_w, tile_h, r + 1, rows, cols)

\* variant: the grid anchored on multiples of the tile edge
_tile_rects_tile_anchored(crs, bbox, scale, tile_size) ==
    LET g == _align_to_grid(bbox[1], bbox[2], bbox[3], bbox[4], tile_size * scale)
        tile_w == tile_size * scale
        tile_h == tile_size * scale
        cols == Max(Ceil(g.grid_maxx - g.grid_minx, tile_w), 1)
        rows == Max(Ceil(g.grid_maxy - g.grid_miny, tile_h), 1)
    IN  [tiles |-> _tiles_of_rows(g, tile_w, tile_h, 0, rows, cols),
         meta |-> [crs |-> crs,
                   crs_transform |-> <<scale, 0, g.origin_x, 0, -scale, g.origin_y>>,
                   tile_size_px |-> tile_size,
                   rows |-> rows,
                   cols |-> cols,
                   origin_x |-> g.origin_x,
                   origin_y |-> g.origin_y,
                   tile_w_m |-> tile_w,
                   tile_h_m |-> tile_h]]

\* _tile_rects, given the projected bounding box _projected_bbox fetched
_tile_rects(crs, bbox, scale, tile_size) ==
    LET g == _align_to_grid(bbox[1], bbox[2], bbox[3], bbox[4], scale)
        tile_w == tile_size * scale
        tile_h == tile_size * scale
        cols == Max(Ceil(g.grid_maxx - g.grid_minx, tile_w), 1)
        rows == Max(Ceil(g.grid_maxy - g.grid_miny, tile_h), 1)
    IN  [tiles |-> _tiles_of_rows(g, tile_w, tile_h, 0, rows, cols),
         meta |-> [crs |-> crs,
                   crs_transform |-> <<scale, 0, g.origin_x, 0, -scale, g.origin_y>>,
                   tile_size_px |-> tile_size,
                   rows |-> rows,
                   cols |-> cols,
                   origin_x |-> g.origin_x,
                   origin_y |-> g.origin_y,
                   tile_w_m |-> tile_w,
                   tile_h_m |-> tile_h]]

(***************************************************************************)
(* Grid planner applied on its own to every box, scale and tile size of    *)
(* the bounds.                                                             *)
(***************************************************************************)
Coords == (-CoordSpan)..CoordSpan
Boxes == {b \in Coords \X Coords \X Coords \X Coords : b[1] < b[3] /\ b[2] < b[4]}
Scales == 1..MaxScale
TileSizes == 1..MaxTileSize

NoPlan == [called |-> FALSE]

PlanGrid ==
    /\ ~plan.called
    /\ \E bbox \in Boxes, scale \in Scales, tile_size \in TileSizes :
          plan' = [called |-> TRUE, bbox |-> bbox, scale |-> scale,
                   tile_size |-> tile_size,
                   grid |-> _tile_rects("EPSG:32720", bbox, scale, tile_size)]
    /\ UNCHANGED <<evars, hcall, avars>>

\* projected bounds (metres, UTM 20S) the backend may report for the region
\* [-64.30, -31.52, -64.05, -31.30]: about 23.8 km wide and 24.5 km high
ScenarioBoxes ==
    {<<376000 + 3 * dx, 6512000 + 3 * dy,
       376000 + 3 * dx + 23800 + 100 * dw, 6512000 + 3 * dy + 24500 + 100 * dh>> :
        dx \in 0..ScenarioJitter, dy \in 0..ScenarioJitter,
        dw \in 0..ScenarioJitter, dh \in 0..ScenarioJitter}

\* _tile_rects for that region at scale 10 with tiles of 1024 pixels
PlanScenario ==
    /\ ~plan.called
    /\ \E bbox \in ScenarioBoxes :
          plan' = [called |-> TRUE, bbox |-> bbox, scale |-> 10,
                   tile_size |-> 1024,
                   grid |-> _tile_rects("EPSG:32720", bbox, 10, 1024)]
    /\ UNCHANGED <<evars, hcall, avars>>

(***************************************************************************)
(* Helpers of the plugin service applied on their own                      *)
(***************************************************************************)
NoCall == [fn |-> "none"]

\* numbers a bbox string may hold: degrees, and magnitudes beyond them
DegreeSamples == {-361, -181, -64, 0, 5, 10, 20, 180, 181, 360, 361}
BBoxParts == [1..4 -> DegreeSamples] \cup {<<0, 0, 1>>, <<0, 0, 1, 1, 2>>}

ParseBBox ==
    /\ hcall = NoCall
    /\ \E parts \in BBoxParts :
         hcall' = [fn |-> "_parse_bbox", parts |-> parts, result |-> _parse_bbox(parts)]
    /\ UNCHANGED <<evars, plan, avars>>

\* _safe_download_params: limit_bytes, the payload ceiling (45 MiB, under the
\* backend's ~48 MB cap)
limit_bytes == 45 * 1024 * 1024
bytes_per_sample == 4

\* int(side / ratio) for ratio = math.sqrt(area / max_pixels): the largest n
\* with n <= side * sqrt(max_pixels / area)
ScaledSide(side, area, max_pixels) ==
    CHOOSE n \in 0..side :
        /\ n * n * area <= side * side * max_pixels
        /\ (n + 1) * (n + 1) * area > side * side * max_pixels

\* variant: the ceiling itself is already too much
_safe_download_params_strict(w_px, h_px, bands_count, limit) ==
    IF w_px * h_px * Max(bands_count, 1) * bytes_per_sample < limit
    THEN [mode |-> "scale", w |-> w_px, h |-> h_px]
    ELSE [mode |-> "dimensions", w |-> 1, h |-> 1]

\* _safe_download_params, step 3: from the estimated payload of w_px x h_px
\* pixels, the mode of the request and, in dimensions mode, the new size
_safe_download_params(w_px, h_px, bands_count, limit) ==
    LET est_bytes == w_px * h_px * Max(bands_count, 1) * bytes_per_sample
    IN  IF est_bytes <= limit
        THEN [mode |-> "scale", w |-> w_px, h |-> h_px]
        ELSE LET max_pixels == limit \div (Max(bands_count, 1) * bytes_per_sample)
                 area == Max(w_px * h_px, 1)
                 new_w == Max(ScaledSide(w_px, area, max_pixels), 1)
                 new_h == Max(ScaledSide(h_px, area, max_pixels), 1)
             IN  [mode |-> "dimensions", w |-> new_w, h |-> new_h]

\* the sizes _approx_dims_from_bbox_and_scale returns for a positive scale
PixelSizes == 1..MaxPx

\* _safe_download_params, the keys of the dict it returns: region and format,
\* crs when a projection was requested (step 2), and scale or dimensions
\* (step 3)
params_keys(projection, sizing) ==
    {"region", "format"}
    \cup (IF projection # "default" THEN {"crs"} ELSE {})
    \cup (IF sizing.mode = "scale" THEN {"scale"} ELSE {"dimensions"})

SizePayload ==
    /\ hcall = NoCall
    /\ \E w_px \in PixelSizes, h_px \in PixelSizes, bands_count \in {0, 1, 3},
          projection \in {"default", "EPSG:4326"} :
         LET sizing == _safe_download_params(w_px, h_px, bands_count, PayloadCeiling)
         IN  hcall' = [fn |-> "_safe_download_params", w_px |-> w_px, h_px |-> h_px,
                       bands_count |-> bands_count, projection |-> projection,
                       result |-> sizing,
                       params |-> params_keys(projection, sizing)]
    /\ UNCHANGED <<evars, plan, avars>>

\* a second call of _safe_download_params, after the first has returned
SizePayloadAgain ==
    /\ hcall.fn = "_safe_download_params"
    /\ \E w_px \in PixelSizes, h_px \in PixelSizes, bands_count \in {0, 1, 3},
          projection \in {"default", "EPSG:4326"} :
         LET sizing == _safe_download_params(w_px, h_px, bands_count, PayloadCeiling)
         IN  hcall' = [fn |-> "_safe_download_params again", first |-> hcall,
                       w_px |-> w_px, h_px |-> h_px,
                       bands_count |-> bands_count, projection |-> projection,
                       result |-> sizing,
                       params |-> params_keys(projection, sizing)]
    /\ UNCHANGED <<evars, plan, avars>>

(***************************************************************************)
(* Scale+offset helpers: the per-band calibration lookup                   *)
(***************************************************************************)
\* Product ids, asset ids and band names are held as the pieces the lookup
\* matches on, in order ("LANDSAT/LC08/C02/T1_L2" is LANDSAT / LC08 / C02 /
\* T1 _ L2); `pat in text` and text.startswith(pat) compare runs of pieces.
Contains(text, pat) ==
    \E i \in 0..(Len(text) - Len(pat)) : SubSeq(text, i + 1, i + Len(pat)) = pat
StartsWith(text, pat) ==
    Len(text) >= Len(pat) /\ SubSeq(text, 1, Len(pat)) = pat

\* str.upper() on one piece of a product id
UpperPiece(piece) ==
    CASE piece = "landsat" -> "LANDSAT"
      [] piece = "lc08" -> "LC08"
      [] piece = "c02" -> "C02"
      [] piece = "t1" -> "T1"
      [] piece = "l2" -> "L2"
      [] OTHER -> piece
Upper(text) == [k \in 1..Len(text) |-> UpperPiece(text[k])]

\* the products the plugin lists, the land-surface-temperature products, and
\* an id typed in lower case
CalibProducts ==
    {<<"LANDSAT", "/", "LC08", "/", "C02", "/", "T1", "_", "L2">>,
     <<"LANDSAT", "/", "LC09", "/", "C02", "/", "T1", "_", "L2">>,
     <<"LANDSAT", "/", "LE07", "/", "C02", "/", "T1", "_", "L2">>,
     <<"LANDSAT", "/", "LT05", "/", "C02", "/", "T1", "_", "L2">>,
     <<"landsat", "/", "lc08", "/", "c02", "/", "t1", "_", "l2">>,
     <<"COPERNICUS", "/", "S2", "_", "SR", "_", "HARMONIZED">>,
     <<"COPERNICUS", "/", "S2", "_", "SR">>,
     <<"MODIS", "/", "061", "/", "MOD11A1">>,
     <<"MODIS", "/", "061", "/", "MYD11A1">>,
     <<"MODIS", "/", "006", "/", "MOD09GA">>}

\* system:asset_id of an image of the product's collection, or '' when the
\* read raises or yields None
AssetIdsOf(product) == {<<>>, Upper(product) \o <<"/", "scene">>}

CalibBands ==
    {<<"SR", "_", "B", "4">>, <<"ST", "_", "B", "10">>, <<"QA", "_", "PIXEL">>,
     <<"B", "4">>, <<"LST", "_", "Day", "_", "1km">>, <<"Emis", "_", "31">>,
     <<"sur", "_", "refl", "_", "b01">>}

\* the band's properties under the keys read in order (scale, SCALE,
\* scale_factor, SCALE_FACTOR; offset, OFFSET, add_offset, ADD_OFFSET):
\* "None" for a missing key, "junk" for a value float() rejects
ScaleProps == {<<"None", "None", "None", "None">>,
               <<"None", "0.5", "None", "0.25">>,
               <<"junk", "None", "None", "None">>}
OffsetProps == {<<"None", "None", "None", "None">>,
                <<"None", "None", "0.1", "None">>,
                <<"None", "junk", "None", "0.1">>}
BandReadings ==
    {[raises |-> TRUE, scale |-> <<"None", "None", "None", "None">>,
      offset |-> <<"None", "None", "None", "None">>]}
    \cup {[raises |-> FALSE, scale |-> sp, offset |-> op] :
              sp \in ScaleProps, op \in OffsetProps}

\* the first key whose value is not None
FirstPresent(props) ==
    LET present == {k \in 1..Len(props) : props[k] # "None"}
    IN  IF present = {} THEN "None"
        ELSE props[CHOOSE k \in present : \A j \in present : k <= j]

\* _band_scale_offset, the try block: s and o as read from the metadata; an
\* exception leaves what was assigned before it
_band_metadata(reading) ==
    IF reading.raises THEN [s |-> "None", o |-> "None"]
    ELSE LET sv == FirstPresent(reading.scale)
             ov == FirstPresent(reading.offset)
         IN  IF sv = "junk" THEN [s |-> "None", o |-> "None"]
             ELSE IF ov = "junk" THEN [s |-> sv, o |-> "None"]
             ELSE [s |-> sv, o |-> ov]

\* _band_scale_offset, the fallback by product family: s and o after the
\* if/elif chain, before the final fallback
_family_table(pid, band, m) ==
    IF \/ Contains(pid, <<"LANDSAT", "/", "LC08", "/", "C02", "/", "T1", "_", "L2">>)
       \/ Contains(pid, <<"LANDSAT", "/", "LC09", "/", "C02", "/", "T1", "_", "L2">>)
    THEN IF StartsWith(band, <<"SR", "_", "B">>) THEN [s |-> "2.75e-5", o |-> "-0.2"]
         ELSE IF StartsWith(band, <<"ST", "_", "B">>) THEN [s |-> "0.00341802", o |-> "149.0"]
         ELSE m
    ELSE IF Contains(pid, <<"COPERNICUS", "/", "S2", "_", "SR">>)
    THEN [s |-> "1e-4", o |-> "0.0"]
    ELSE IF /\ Contains(pid, <<"MODIS", "/">>)
            /\ Contains(pid, <<"MOD11A1">>) \/ Contains(pid, <<"MYD11A1">>)
    THEN IF Contains(band, <<"LST", "_">>) THEN [s |-> "0.02", o |-> "0.0"]
         ELSE IF Contains(band, <<"Emis", "_">>) THEN [s |-> "0.002", o |-> "0.49"]
         ELSE m
    ELSE m

\* _band_scale_offset: the (s, o) it returns
_band_scale_offset_pair(reading, asset_id, band, product) ==
    LET m == _band_metadata(reading)
    IN  IF m.s # "None" /\ m.o # "None" THEN m
        ELSE LET pid == Upper(product) \o <<"|">> \o Upper(asset_id)
                 t == _family_table(pid, band, m)
             IN  [s |-> IF t.s = "None" THEN "1.0" ELSE t.s,
                  o |-> IF t.o = "None" THEN "0.0" ELSE t.o]

LookUpCalibration ==
    /\ hcall = NoCall
    /\ \E product \in CalibProducts, band \in CalibBands, reading \in BandReadings :
         \E asset_id \in AssetIdsOf(product) :
           hcall' = [fn |-> "_band_scale_offset", product |-> product, band |-> band,
                     reading |-> reading, asset_id |-> asset_id,
                     result |-> _band_scale_offset_pair(reading, asset_id, band, product)]
    /\ UNCHANGED <<evars, plan, avars>>

(***************************************************************************)
(* Cloud masking helpers                                                   *)
(***************************************************************************)
\* ee.Image.bitwiseAnd and rightShift on one pixel value
RECURSIVE bitwiseAnd(_, _)
bitwiseAnd(a, b) ==
    IF a = 0 \/ b = 0 THEN 0
    ELSE (a % 2) * (b % 2) + 2 * bitwiseAnd(a \div 2, b \div 2)
rightShift(a, n) == a \div (2 ^ n)

QaValues == 0..(2 ^ QaBits - 1)

\* _mask_s2_sr: SCL when the image has it (_from_scl), else QA60 (_from_qa60),
\* else the image as it is
_mask_s2_sr(bands, qa) ==
    LET _from_scl == qa # 3 /\ qa # 7 /\ qa # 8 /\ qa # 9 /\ qa # 10 /\ qa # 11
        _from_qa60 == bitwiseAnd(qa, 2 ^ 10) = 0 /\ bitwiseAnd(qa, 2 ^ 11) = 0
    IN  IF "SCL" \in bands THEN [mask |-> "s2_scl", kept |-> _from_scl]
        ELSE IF "QA60" \in bands THEN [mask |-> "s2_qa60", kept |-> _from_qa60]
        ELSE [mask |-> "none", kept |-> TRUE]

\* variant: the clear bit is not required
_mask_landsat_c2_sr_no_clear(qa) ==
    [mask |-> "landsat",
     kept |-> /\ bitwiseAnd(qa, 2 ^ 1) = 0
              /\ bitwiseAnd(qa, 2 ^ 3) = 0
              /\ bitwiseAnd(qa, 2 ^ 4) = 0
              /\ bitwiseAnd(qa, 2 ^ 5) = 0]

\* _mask_landsat_c2_sr: the mask on a pixel whose QA_PIXEL value is qa
_mask_landsat_c2_sr(qa) ==
    LET not_dilated == bitwiseAnd(qa, 2 ^ 1) = 0
        not_cloud == bitwiseAnd(qa, 2 ^ 3) = 0
        not_shadow == bitwiseAnd(qa, 2 ^ 4) = 0
        not_snow == bitwiseAnd(qa, 2 ^ 5) = 0
        is_clear == bitwiseAnd(qa, 2 ^ 6) # 0
    IN  [mask |-> "landsat",
         kept |-> not_dilated /\ not_cloud /\ not_shadow /\ not_snow /\ is_clear]

\* variant: the hard mask (clear state only, no cirrus, no internal cloud flag)
_mask_modis_sr_hard(qa) ==
    [mask |-> "modis",
     kept |-> /\ bitwiseAnd(qa, 3) = 0
              /\ bitwiseAnd(rightShift(qa, 2), 1) = 0
              /\ bitwiseAnd(rightShift(qa, 8), 3) = 0
              /\ bitwiseAnd(rightShift(qa, 10), 1) = 0]

\* _mask_modis_sr (the soft mask): the mask on a pixel whose state_1km value
\* is qa
_mask_modis_sr(qa) ==
    LET cloud_state == bitwiseAnd(qa, 3)
        not_cloud == cloud_state # 1
        no_shadow == bitwiseAnd(rightShift(qa, 2), 1) = 0
        cirrus_level == bitwiseAnd(rightShift(qa, 8), 3)
        accept_cirrus == cirrus_level <= 1
    IN  [mask |-> "modis", kept |-> not_cloud /\ no_shadow /\ accept_cirrus]

\* products a request may name, as the pieces the dispatch matches on
MaskProducts ==
    {<<"COPERNICUS", "/", "S2", "_", "SR", "_", "HARMONIZED">>,
     <<"LANDSAT", "/", "LC08", "/", "C02", "/", "T1", "_", "L2">>,
     <<"LANDSAT", "/", "LE07", "/", "C02", "/", "T1", "_", "L2">>,
     <<"MODIS", "/", "061", "/", "MOD09", "GA">>,
     <<"MODIS", "/", "006", "/", "MOD09", "GA">>,
     <<"MODIS", "/", "061", "/", "MOD11A1">>}

\* the quality bands an image of the product may carry
QualityBandsOf(product) ==
    IF Contains(product, <<"COPERNICUS">>) THEN {{"SCL", "QA60"}, {"QA60"}, {}}
    ELSE IF Contains(product, <<"LANDSAT">>) THEN {{"QA_PIXEL"}}
    ELSE IF Contains(product, <<"MOD09">>) THEN {{"state_1km"}}
    ELSE {{}}

\* _apply_cloud_mask_by_product: the mask chosen for the product, applied to
\* a pixel whose quality value is qa
_apply_cloud_mask_by_product(product, bands, qa) ==
    LET p == Upper(product)
    IN  IF \/ Contains(p, <<"COPERNICUS", "/", "S2", "_", "SR">>)
           \/ Contains(p, <<"S2", "_", "SR", "_", "HARMONIZED">>)
        THEN _mask_s2_sr(bands, qa)
        ELSE IF /\ Contains(p, <<"LANDSAT", "/">>)
                /\ Contains(p, <<"/", "C02", "/">>)
                /\ Contains(p, <<"_", "L2">>)
        THEN _mask_landsat_c2_sr(qa)
        ELSE IF Contains(p, <<"MODIS", "/", "061", "/", "MOD09">>)
        THEN _mask_modis_sr(qa)
        ELSE [mask |-> "none", kept |-> TRUE]

MaskPixel ==
    /\ hcall = NoCall
    /\ \E product \in MaskProducts, qa \in QaValues :
         \E bands \in QualityBandsOf(product) :
           hcall' = [fn |-> "_apply_cloud_mask_by_product", product |-> product,
                     bands |-> bands, qa |-> qa,
                     result |-> _apply_cloud_mask_by_product(product, bands, qa)]
    /\ UNCHANGED <<evars, plan, avars>>

(***************************************************************************)
(* GEE plugin service: the six tiled endpoints                             *)
(***************************************************************************)
Endpoints == {"bands_single", "bands_composite", "rgb_single", "rgb_composite",
              "index_single", "index_composite"}
IsComposite(e) == e \in {"bands_composite", "rgb_composite", "index_composite"}
IsRgb(e) == e \in {"rgb_single", "rgb_composite"}
IsIndex(e) == e \in {"index_single", "index_composite"}

\* bbox strings a request may carry, as the numbers they split into
BBoxInputs == {<<-64, -32, -63, -31>>, <<10, 5, 10, 20>>, <<400, 0, 401, 1>>, <<0, 0, 1>>}
\* the ceiling is a query parameter; two values of it
TileCaps == {MaxTilesCap \div 2, MaxTilesCap}
Resolutions == {[default |-> TRUE]}
               \cup {[default |-> FALSE, value |-> v] : v \in (MaxScale - 1)..MaxScale}
Projections == {"default", "EPSG:4326"}
NativeCrs == "EPSG:32720"

\* query parameters: `date` is the date of a single-date endpoint and the end
\* date of a composite one; `bands` is the number of band names listed
\* (0: empty, "none" or "all")
Requests ==
    {q \in [endpoint : Endpoints,
            bbox : BBoxInputs,
            date : {"2024-01-15", "15/01/2024"},
            reducer : {"mean", "mosaico", "sum"},
            bands : {0, 3},
            projection : Projections,
            resolution : Resolutions,
            tile_size : TileSizes,
            max_tiles : TileCaps,
            apply_scale_offset : BOOLEAN] :
        /\ (~IsComposite(q.endpoint) => q.reducer = "mean")
        /\ (IsIndex(q.endpoint) => q.bands = 0 /\ ~q.apply_scale_offset)}

NoReq == [endpoint |-> "none"]
NoCrs == [crs |-> "none", scale |-> 0]
NoGrid == [tiles |-> <<>>, meta |-> [crs |-> "none"]]
NoDetail == [tag |-> "none", exc |-> "none"]

\* what the backend answers to getDownloadURL: a URL, or an EEException with
\* one of these messages
BackendErrors == {"not authorized", "quota exceeded", "geometry is empty"}
BackendReplies == {"url"} \cup BackendErrors

\* datetime.strptime(day, "%Y-%m-%d") succeeds
_date_ok(day) == day = "2024-01-15"

_resolve_reducer(name) ==
    IF name \in {"mean", "avg", "promedio"} THEN [ok |-> TRUE, how |-> "mean"]
    ELSE IF name \in {"median", "mediana"} THEN [ok |-> TRUE, how |-> "median"]
    ELSE IF name \in {"min", "minimum", "minimo"} THEN [ok |-> TRUE, how |-> "min"]
    ELSE IF name \in {"max", "maximum", "maximo"} THEN [ok |-> TRUE, how |-> "max"]
    ELSE IF name \in {"mosaic", "mosaico"} THEN [ok |-> TRUE, how |-> "mosaic"]
    ELSE [ok |-> FALSE, error |-> "reducer"]

Check(what) == [kind |-> "check", what |-> what]
Net(call) == [kind |-> "net", what |-> call]

\* _band_scale_offset: one getInfo for the band, and one for the asset id when
\* the band carries no scale/offset metadata
_band_scale_offset(meta_present) ==
    IF meta_present
    THEN <<Net("getInfo:band")>>
    ELSE <<Net("getInfo:band"), Net("getInfo:asset_id")>>

RECURSIVE Repeat(_, _)
Repeat(steps, n) == IF n <= 0 THEN <<>> ELSE steps \o Repeat(steps, n - 1)

\* _apply_scale_offset_multi: bandNames().getInfo() when no band is listed,
\* then _band_scale_offset per band
_apply_scale_offset_multi(bands, meta_present) ==
    IF bands = 0
    THEN <<Net("getInfo:bandNames")>> \o Repeat(_band_scale_offset(meta_present), ProductBands)
    ELSE Repeat(_band_scale_offset(meta_present), bands)

\* The image builders, as the local checks and backend calls they make, in
\* the order of the code.  Everything else they do builds a deferred
\* expression and sends nothing.
_bands_image_single(q, meta_present) ==
    <<Check("date")>>
    \o (IF q.apply_scale_offset THEN _apply_scale_offset_multi(q.bands, meta_present) ELSE <<>>)

_bands_image_composite(q, meta_present) ==
    <<Check("reducer")>>
    \o (IF q.apply_scale_offset THEN _apply_scale_offset_multi(q.bands, meta_present) ELSE <<>>)

_rgb_image_single(q, meta_present) ==
    <<Check("three_bands"), Check("date")>>
    \o (IF q.apply_scale_offset THEN _apply_scale_offset_multi(q.bands, meta_present) ELSE <<>>)

_rgb_image_composite(q, meta_present) ==
    <<Check("three_bands"), Check("reducer")>>
    \o (IF q.apply_scale_offset THEN _apply_scale_offset_multi(q.bands, meta_present) ELSE <<>>)

_nd_image_single(q, meta_present) ==
    <<Check("date")>>
    \o _band_scale_offset(meta_present) \o _band_scale_offset(meta_present)

_nd_image_composite(q, meta_present) ==
    _band_scale_offset(meta_present) \o _band_scale_offset(meta_present)
    \o <<Check("reducer")>>

ImageBuilder(q, meta_present) ==
    CASE q.endpoint = "bands_single" -> _bands_image_single(q, meta_present)
      [] q.endpoint = "bands_composite" -> _bands_image_composite(q, meta_present)
      [] q.endpoint = "rgb_single" -> _rgb_image_single(q, meta_present)
      [] q.endpoint = "rgb_composite" -> _rgb_image_composite(q, meta_present)
      [] q.endpoint = "index_single" -> _nd_image_single(q, meta_present)
      [] q.endpoint = "index_composite" -> _nd_image_composite(q, meta_present)

CheckPasses(q, what) ==
    CASE what = "date" -> _date_ok(q.date)
      [] what = "reducer" -> _resolve_reducer(q.reducer).ok
      [] what = "three_bands" -> q.bands = 3

\* index of the first check of `steps` that raises, Len(steps) + 1 if none
FirstFailure(q, steps) ==
    LET bad == {i \in 1..Len(steps) :
                  steps[i].kind = "check" /\ ~CheckPasses(q, steps[i].what)}
    IN  IF bad = {} THEN Len(steps) + 1
        ELSE CHOOSE i \in bad : \A j \in bad : i <= j

IsNet(step) == step.kind = "net"
CallOf(step) == step.what
\* the backend calls made before position n of `steps`
CallsBefore(steps, n) ==
    LET nets == SelectSeq(SubSeq(steps, 1, n - 1), IsNet)
    IN  [i \in 1..Len(nets) |-> CallOf(nets[i])]

\* what the backend reports for the first image of the collection: its
\* nominal scale, or nothing readable (no image matches, no CRS or scale)
NativeReadings == {[readable |-> FALSE, scale |-> 0]}
                  \cup {[readable |-> TRUE, scale |-> v] : v \in Scales}

\* variant: a scale is made up when nothing can be read
_infer_native_proj_guess(reading) ==
    [raised |-> FALSE, crs |-> NativeCrs,
     scale |-> IF reading.readable THEN reading.scale ELSE MaxScale]

\* _infer_native_proj: (crs, scale) of the first image, or the HTTPException
\* raised for whatever went wrong
_infer_native_proj(reading) ==
    IF reading.readable
    THEN [raised |-> FALSE, crs |-> NativeCrs, scale |-> reading.scale]
    ELSE [raised |-> TRUE, crs |-> "none", scale |-> 0]

\* _resolve_crs_scale, given what _infer_native_proj returned
_resolve_crs_scale(q, native) ==
    IF q.projection = "default" \/ q.resolution.default
    THEN IF q.projection = "default" /\ ~q.resolution.default
         THEN [crs |-> native.crs, scale |-> q.resolution.value]
         ELSE IF q.projection # "default" /\ q.resolution.default
              THEN [crs |-> q.projection, scale |-> native.scale]
              ELSE native
    ELSE [crs |-> q.projection, scale |-> q.resolution.value]

\* variant: the ceiling tested one tile too late
TooManyTiles_off_by_one(tiles, max_tiles) == Len(tiles) > max_tiles + 1

\* the test `len(tiles) > max_tiles` of every endpoint
TooManyTiles(tiles, max_tiles) == Len(tiles) > max_tiles

\* variant: each tile exported on a transform anchored at its own corner
TileParams_own_origin(meta, t) ==
    [format |-> "GEO_TIFF",
     crs |-> meta.crs,
     crs_transform |-> <<meta.crs_transform[1], 0, t.bbox_crs[1],
                         0, meta.crs_transform[5], t.bbox_crs[4]>>,
     region |-> t.bbox_crs]

\* params = dict(common); params["region"] = t["geom"]
TileParams(meta, t) ==
    [format |-> "GEO_TIFF",
     crs |-> meta.crs,
     crs_transform |-> meta.crs_transform,
     region |-> t.bbox_crs]

\* variant: a rejected request is swallowed and the loop goes on
_get_download_url_swallow(reply, tag, i) ==
    [raised |-> FALSE, url |-> IF reply = "url" THEN i ELSE 0]

\* _get_download_url: the URL, or the HTTPException raised for an EEException
_get_download_url(reply, tag, i) ==
    IF reply = "url"
    THEN [raised |-> FALSE, url |-> i]
    ELSE [raised |-> TRUE, status |-> 401, detail |-> [tag |-> tag, exc |-> reply]]

(***************************************************************************)
(* GEE plugin service: the handler, step by step                           *)
(***************************************************************************)
\* projected bounds the backend may report for the region
ProjBoxes == {<<-1, -1, w - 1, h - 1>> : w \in 1..CoordSpan, h \in 1..CoordSpan}

EpFailWith(err, detail) ==
    /\ epc' = "error"
    /\ eerr' = err
    /\ edetail' = detail

\* an HTTPException whose detail is a fixed text
EpFail(err) == EpFailWith(err, NoDetail)

\* a request arrives at one of the six routes
EpReceive ==
    /\ epc = "idle"
    /\ \E q \in Requests : ereq' = q
    /\ epc' = "validate"
    /\ UNCHANGED <<_INITIALIZED, ecrs, egrid, exports, out_tiles, backend, eerr, edetail, plan, hcall, avars>>

\* _init_ee(); region = _parse_bbox(bbox); composites: parse the end date
EpValidate ==
    /\ epc = "validate"
    /\ _INITIALIZED' = TRUE
    /\ IF ~_parse_bbox(ereq.bbox).ok
       THEN EpFail(_parse_bbox(ereq.bbox).error)
       ELSE IF IsComposite(ereq.endpoint) /\ ~_date_ok(ereq.date)
            THEN EpFail("date")
            ELSE epc' = "image" /\ eerr' = eerr /\ edetail' = edetail
    /\ UNCHANGED <<ereq, ecrs, egrid, exports, out_tiles, backend, plan, hcall, avars>>

\* img = _<kind>_image_<single|composite>(...)
EpImage ==
    /\ epc = "image"
    /\ \E meta_present \in BOOLEAN :
         LET steps == ImageBuilder(ereq, meta_present)
             n == FirstFailure(ereq, steps)
         IN  /\ backend' = backend \o CallsBefore(steps, n)
             /\ IF n <= Len(steps)
                THEN EpFail(steps[n].what)
                ELSE epc' = "resolve" /\ eerr' = eerr /\ edetail' = edetail
    /\ UNCHANGED <<_INITIALIZED, ereq, ecrs, egrid, exports, out_tiles, plan, hcall, avars>>

\* crs_nat, scale_nat = _resolve_crs_scale(...): the native projection is
\* fetched only when projection or resolution is "default"
EpResolve ==
    /\ epc = "resolve"
    /\ IF ereq.projection = "default" \/ ereq.resolution.default
       THEN \E reading \in NativeReadings :
              LET native == _infer_native_proj(reading)
              IN  /\ backend' = Append(backend, IF reading.readable
                                                THEN "getInfo:projection"
                                                ELSE "getInfo:projection:error")
                  /\ IF native.raised
                     THEN EpFail("projection_inference") /\ ecrs' = ecrs
                     ELSE /\ ecrs' = _resolve_crs_scale(ereq, [crs |-> native.crs,
                                                               scale |-> native.scale])
                          /\ epc' = "grid"
                          /\ eerr' = eerr /\ edetail' = edetail
       ELSE /\ backend' = backend
            /\ ecrs' = _resolve_crs_scale(ereq, NoCrs)
            /\ epc' = "grid"
            /\ eerr' = eerr /\ edetail' = edetail
    /\ UNCHANGED <<_INITIALIZED, ereq, egrid, exports, out_tiles, plan, hcall, avars>>

\* region_proj = _region_in_crs(...); img.clip; tiles, meta = _tile_rects(...)
\* with its _projected_bbox fetch; the max_tiles test
EpGrid ==
    /\ epc = "grid"
    /\ backend' = Append(backend, "getInfo:bounds")
    /\ \/ EpFail("backend") /\ egrid' = egrid
       \/ \E bbox \in ProjBoxes :
            LET grid == _tile_rects(ecrs.crs, bbox, ecrs.scale, ereq.tile_size)
            IN  /\ egrid' = grid
                /\ IF TooManyTiles(grid.tiles, ereq.max_tiles)
                   THEN EpFail("too_many_tiles")
                   ELSE epc' = "export" /\ eerr' = eerr /\ edetail' = edetail
    /\ UNCHANGED <<_INITIALIZED, ereq, ecrs, exports, out_tiles, plan, hcall, avars>>

\* one turn of `for t in tiles`: the export request of the next tile
EpExport ==
    /\ epc = "export"
    /\ Len(exports) < Len(egrid.tiles)
    /\ LET i == Len(exports) + 1
           t == egrid.tiles[i]
           params == TileParams(egrid.meta, t)
       IN  \E reply \in BackendReplies :
             LET got == _get_download_url(reply, ereq.endpoint, i)
             IN  /\ exports' = Append(exports, [tile |-> i, params |-> params, ok |-> reply = "url", reply |-> reply])
                 /\ backend' = Append(backend, "getDownloadURL")
                 /\ IF got.raised
                    THEN EpFailWith("export", got.detail) /\ out_tiles' = out_tiles
                    ELSE /\ out_tiles' = Append(out_tiles,
                                [row |-> t.r, col |-> t.c, bbox_crs |-> t.bbox_crs, url |-> got.url])
                         /\ epc' = epc
                         /\ eerr' = eerr /\ edetail' = edetail
    /\ UNCHANGED <<_INITIALIZED, ereq, ecrs, egrid, plan, hcall, avars>>

\* return {"tiling": meta, "tiles": out_tiles}
EpReturn ==
    /\ epc = "export"
    /\ Len(exports) = Len(egrid.tiles)
    /\ epc' = "done"
    /\ UNCHANGED <<_INITIALIZED, ereq, ecrs, egrid, exports, out_tiles, backend, eerr, edetail, plan, hcall, avars>>

\* the response (the tiles or the error) is sent and the handler's frame is gone
EpRespond ==
    /\ epc \in {"done", "error"}
    /\ epc' = "idle"
    /\ ereq' = NoReq
    /\ ecrs' = NoCrs
    /\ egrid' = NoGrid
    /\ exports' = <<>>
    /\ out_tiles' = <<>>
    /\ backend' = <<>>
    /\ eerr' = "none"
    /\ edetail' = NoDetail
    /\ UNCHANGED <<_INITIALIZED, plan, hcall, avars>>

(***************************************************************************)
(* Geoprocess agent: executor                                              *)
(***************************************************************************)
Procs == 1..NumProcs
OutIds == {"ndvi", "rgb"}

\* geoprocess names, split into a base and the suffix the executor tests
Names == {[base |-> "rgb_composite", suffix |-> "_tif"],
          [base |-> "rgb_composite", suffix |-> ""]}

\* action descriptors: a dict with its three keys, or a list item that is no dict
ActionDescs ==
    [kind : {"dict"}, geoprocess_name : Names, has_name : {TRUE},
     output_id : OutIds, output_id_is_str : {TRUE}]
    \cup {[kind |-> "dict", geoprocess_name |-> n, has_name |-> FALSE,
           output_id |-> "ndvi", output_id_is_str |-> TRUE] :
            n \in {[base |-> "", suffix |-> ""]}}
    \cup {[kind |-> "dict", geoprocess_name |-> n, has_name |-> TRUE,
           output_id |-> "ndvi", output_id_is_str |-> FALSE] :
            n \in {[base |-> "rgb_composite", suffix |-> "_tif"]}}
    \cup {[kind |-> "not_a_dict", geoprocess_name |-> n, has_name |-> FALSE,
           output_id |-> "ndvi", output_id_is_str |-> TRUE] :
            n \in {[base |-> "", suffix |-> ""]}}

SeqsUpTo(S, n) == UNION {[1..k -> S] : k \in 0..n}

\* job descriptions: the `products` value and the `actions` list
Jobs == [products : {"list_of_dicts", "not_a_list", "list_with_non_dict"},
         actions : SeqsUpTo(ActionDescs, MaxActions)]
NoJob == [products |-> "none", actions |-> <<>>]

_gee_endpoint_from_name(name) ==
    IF name.suffix = "_tif"
    THEN [found |-> TRUE, base |-> name.base, tail |-> ""]
    ELSE IF name.suffix = "_tif_tiled"
         THEN [found |-> TRUE, base |-> name.base, tail |-> "_tiled"]
         ELSE [found |-> FALSE, base |-> "", tail |-> ""]

\* the body a tiled endpoint answers with for a grid of rows x cols tiles
TiledResponse(rows, cols) ==
    LET g == _align_to_grid(0, 0, cols, rows, 1)
        tiles == _tiles_of_rows(g, 1, 1, 0, rows, cols)
    IN  [status |-> 200,
         tiles |-> [i \in DOMAIN tiles |->
                      [row |-> tiles[i].r, col |-> tiles[i].c,
                       bbox_crs |-> tiles[i].bbox_crs,
                       url |-> [r |-> tiles[i].r, c |-> tiles[i].c,
                                x_left |-> tiles[i].bbox_crs[1],
                                y_top |-> tiles[i].bbox_crs[4]]]]]
ErrorResponse == [status |-> 400, tiles |-> <<>>]
Responses == {ErrorResponse}
             \cup {TiledResponse(r, c) : r \in 1..MaxGridDim, c \in 1..MaxGridDim}

\* variant: the tile URLs listed last to first
_gee_http_execute_reversed(name, r) ==
    IF _gee_endpoint_from_name(name).found /\ r.status = 200 /\ Len(r.tiles) > 0
    THEN [kind |-> "dict",
          output_urls |-> [i \in DOMAIN r.tiles |-> r.tiles[Len(r.tiles) + 1 - i].url]]
    ELSE [kind |-> IF _gee_endpoint_from_name(name).found THEN "raised" ELSE "none",
          output_urls |-> <<>>]

\* _gee_http_execute: None when the name maps to no endpoint, an exception
\* for an error status (or an unknown route), else the list of tile URLs
_gee_http_execute(name, r) ==
    LET path == _gee_endpoint_from_name(name)
    IN  IF ~path.found
        THEN [kind |-> "none", output_urls |-> <<>>]
        ELSE IF path.base \notin Endpoints \/ path.tail # "" \/ r.status # 200
             THEN [kind |-> "raised", output_urls |-> <<>>]
             ELSE IF Len(r.tiles) = 0
                  THEN [kind |-> "raised", output_urls |-> <<>>]
                  ELSE [kind |-> "dict",
                        output_urls |-> [i \in DOMAIN r.tiles |-> r.tiles[i].url]]

\* execute_action: no module executor is installed (ACTIVE_PLUGIN_EXECUTOR
\* unset and no plugins.runtime module), so the HTTP adaptor answers or the
\* call ends in "No executor available"
execute_action(name, r) ==
    LET out == _gee_http_execute(name, r)
    IN  IF out.kind = "none"
        THEN [kind |-> "raised", output_urls |-> <<>>,
              error |-> "No executor available"]
        ELSE [kind |-> out.kind, output_urls |-> out.output_urls,
              error |-> IF out.kind = "raised" THEN "adaptor" ELSE "none"]

\* the geoprocess names get_metadata_geoprocessing advertises
AdvertisedNames == {"rgb_single", "index_single", "rgb_composite", "index_composite"}

\* names an action may carry: a route of the service or another word, bare or
\* with one of the suffixes the executor tests
ExecutorNames ==
    [base : Endpoints \cup {"slope"}, suffix : {"", "_tif", "_tif_tiled"}]

ExecuteAction ==
    /\ hcall = NoCall
    /\ \E name \in ExecutorNames, r \in Responses :
         hcall' = [fn |-> "execute_action", name |-> name, response |-> r,
                   result |-> execute_action(name, r)]
    /\ UNCHANGED <<evars, plan, avars>>

(***************************************************************************)
(* Geoprocess agent: check_and_fix_json, the repair of the final JSON      *)
(***************************************************************************)
\* complete_json: the limits it passes to check_and_fix_json
max_hierarchy == 5
max_hierarchy_per_error == 3

\* messages of the validation, each with the index or value it quotes
ErrorMessages ==
    [text : {"Final JSON missing required keys: ", "Duplicate product id ",
             " has date_initial after date_end."},
     quoted : 0 .. 1]

\* a JSON state, by what the validation of check_and_fix_json does on it: it
\* passes, it raises the ValueError of its first fault, or (a state that is
\* no mapping, as null) it raises a TypeError
JsonStates ==
    {[check |-> "passes"], [check |-> "TypeError"]}
        \cup [check : {"ValueError"}, msg : ErrorMessages]
NoState == [check |-> "none"]

\* what the LLM may answer to a repair request: a text without a wrapper
\* JSON, or a wrapper holding any JSON state
Replies == {[wrapper |-> FALSE]} \cup [wrapper : {TRUE}, json : JsonStates]

HierarchyReached == "Maximum JSON correction hierarchy reached."
NoWrapper == "LLM did not return a valid wrapper JSON during error handling."

\* quoted values and digits are stripped: the text alone is the key
_normalize_error_key(msg) == msg.text

\* variant: the attempts of an error kind are not counted
_retry_with_llm_uncounted(f, err_msg) ==
    LET key == _normalize_error_key(err_msg)
        cnt == f.error_attempts[key]
    IN  IF cnt >= max_hierarchy_per_error
        THEN [f EXCEPT !.pc = "returned", !.result = f.state]
        ELSE [f EXCEPT !.pc = "asked", !.sent = Append(@, err_msg)]

\* _retry_with_llm up to the request it sends: it gives up on a key that has
\* used its attempts and returns the state as it is, else counts the attempt
\* and asks the LLM
_retry_with_llm(f, err_msg) ==
    LET key == _normalize_error_key(err_msg)
        cnt == f.error_attempts[key]
    IN  IF cnt >= max_hierarchy_per_error
        THEN [f EXCEPT !.pc = "returned", !.result = f.state]
        ELSE [f EXCEPT !.error_attempts[key] = cnt + 1,
                       !.pc = "asked", !.sent = Append(@, err_msg)]

\* one level of check_and_fix_json, up to its return, its exception or its
\* repair request; a return or an exception of a level passes through every
\* level above it unchanged
check_and_fix_json(f) ==
    IF f.hierarchy >= max_hierarchy
    THEN [f EXCEPT !.pc = "raised", !.error = HierarchyReached]
    ELSE CASE f.state.check = "passes" ->
                [f EXCEPT !.pc = "returned", !.result = f.state]
           [] f.state.check = "ValueError" -> _retry_with_llm(f, f.state.msg)
           [] OTHER -> [f EXCEPT !.pc = "raised", !.error = "TypeError"]

\* HandleValueErrorWithLLM on the reply, and the recursive call on its result
HandleValueErrorWithLLM(f, reply) ==
    IF ~reply.wrapper
    THEN [f EXCEPT !.pc = "raised", !.error = NoWrapper]
    ELSE [f EXCEPT !.pc = "check", !.state = reply.json, !.hierarchy = @ + 1]

\* complete_json calls check_and_fix_json on the state of the dialogue
CompleteJson ==
    /\ hcall = NoCall
    /\ \E state \in JsonStates :
         hcall' = [fn |-> "check_and_fix_json", pc |-> "check", state |-> state,
                   hierarchy |-> 0,
                   error_attempts |->
                       [k \in {_normalize_error_key(m) : m \in ErrorMessages} |-> 0],
                   sent |-> <<>>, result |-> NoState, error |-> "none"]
    /\ UNCHANGED <<evars, plan, avars>>

CheckLevel ==
    /\ hcall.fn = "check_and_fix_json"
    /\ hcall.pc = "check"
    /\ hcall' = check_and_fix_json(hcall)
    /\ UNCHANGED <<evars, plan, avars>>

LlmReplies ==
    /\ hcall.fn = "check_and_fix_json"
    /\ hcall.pc = "asked"
    /\ \E reply \in Replies : hcall' = HandleValueErrorWithLLM(hcall, reply)
    /\ UNCHANGED <<evars, plan, avars>>

(***************************************************************************)
(* Geoprocess agent: download and merge helpers                            *)
(***************************************************************************)
TileFile(stem, ts, i, size, url) ==
    [stem |-> stem, ts |-> ts, index |-> i, size |-> size, from |-> url]
MergedFile(stem, ts, ext, content, tiles_ts) ==
    [stem |-> stem, ts |-> ts, ext |-> ext, content |-> content, made_from |-> tiles_ts]

\* two files at one path of MERGED_ROOT
SamePath(a, b) == a.stem = b.stem /\ a.ts = b.ts /\ a.ext = b.ext
\* a file is written: whatever was at its path is replaced
WriteFile(dir, file) == {m \in dir : ~SamePath(m, file)} \cup {file}
\* the file at a path is removed
Unlink(dir, file) == {m \in dir : ~SamePath(m, file)}

\* variant: the output path carries no timestamp
_merge_ts_untagged(now) == 0

\* ts of _merge_with_gdal: datetime.now(), formatted to the microsecond
_merge_ts(now) == now

\* a _clean_dir that removes nothing
_clean_dir_keep(children) == children

\* _clean_dir: every child of the directory is removed
_clean_dir(children) == {}

\* what one HTTP download can do
\* variant: one staging directory for every output id
tiles_dir_shared(out_id) == "ndvi"

\* tiles_dir = TILES_ROOT / out_id, as the key of `staging`
tiles_dir(out_id) == out_id

DownloadOutcomes == {"data", "empty_body", "error_status", "connection_lost"}

\* a _download_file that reports success whatever the transfer did
_download_file_swallow(outcome) ==
    [raised |-> FALSE, size |-> IF outcome = "data" THEN "data" ELSE "empty"]

\* _download_file: whether it raises, and the size of the file left at dest
\* ("none": dest was never opened)
_download_file(outcome) ==
    CASE outcome = "data" -> [raised |-> FALSE, size |-> "data"]
      [] outcome = "empty_body" -> [raised |-> FALSE, size |-> "empty"]
      [] outcome = "error_status" -> [raised |-> TRUE, size |-> "none"]
      [] outcome = "connection_lost" -> [raised |-> TRUE, size |-> "partial"]

\* what a GDAL tool or a copy can do: succeed, or fail leaving nothing or a
\* partly written file at its output path
ToolOutcomes == {"ok", "failed", "failed_partial"}

(***************************************************************************)
(* Geoprocess agent: geoprocess(json_instructions), step by step           *)
(***************************************************************************)
IdleFrame ==
    [pc |-> "idle", job |-> NoJob, idx |-> 0, run_id |-> "none",
     urls |-> <<>>, tiles_ts |-> 0, local_tiles |-> <<>>,
     src_files |-> <<>>, merge_ts |-> 0, result |-> "none",
     finish_calls |-> 0, stale |-> {}, attempts |-> <<>>]

\* variant: the message is returned without _finish
_error_no_finish(f, msg) == [f EXCEPT !.pc = "returned", !.result = msg]

\* _error(msg): _finish("error") and return msg
_error(f, msg) ==
    [f EXCEPT !.pc = "returned", !.result = msg, !.finish_calls = @ + 1]

\* an exception leaves geoprocess
Raise(f, exc) == [f EXCEPT !.pc = "raised", !.result = exc]

\* the frame moves on; _finish, when it ran, has cleared the context's run id
Step(p, f) ==
    /\ run' = [run EXCEPT ![p] = f]
    /\ ctx_run_id' = IF f.finish_calls > run[p].finish_calls
                     THEN [ctx_run_id EXCEPT ![p] = "none"]
                     ELSE ctx_run_id

\* entry: start_run, the checks of `products` and `actions`, product_map
GpCallWithin(p, budget) ==
    /\ run[p].pc = "idle"
    /\ \E job \in Jobs, chatdb_enabled \in BOOLEAN :
         /\ clock + 2 * Len(job.actions) <= budget
         /\ LET run_id == IF chatdb_enabled THEN "run" ELSE "none"
                f == [IdleFrame EXCEPT !.job = job, !.run_id = run_id]
                g == IF job.products = "not_a_list"
                     THEN _error(f, "Error: 'products' must be a list.")
                     ELSE IF job.actions = <<>>
                          THEN _error(f, "No geoprocess actions to run.")
                          ELSE IF job.products = "list_with_non_dict"
                               THEN Raise(f, "AttributeError")
                               ELSE [f EXCEPT !.pc = "action", !.idx = 1]
            IN  /\ run' = [run EXCEPT ![p] = g]
                /\ ctx_run_id' = [ctx_run_id EXCEPT ![p] =
                                    IF g.finish_calls > 0 THEN "none"
                                    ELSE IF chatdb_enabled THEN "run" ELSE @]
    /\ UNCHANGED <<staging, merged, clock, evars, plan, hcall>>

\* a call that can run to its end before the clock reaches MaxClock
GpCall(p) == GpCallWithin(p, MaxClock)

\* top of the loop body: read the descriptor, execute_action, collect the URLs
GpExecute(p) ==
    /\ run[p].pc = "action"
    /\ LET f == run[p]
           a == f.job.actions[f.idx]
       IN  \E r \in Responses :
             LET result == execute_action(a.geoprocess_name, r)
             IN  Step(p,
                   IF a.kind # "dict" THEN Raise(f, "AttributeError")
                   ELSE IF ~a.has_name THEN _error(f, "Action missing 'geoprocess_name'.")
                   ELSE IF result.kind = "raised" THEN _error(f, "Action failed")
                   ELSE IF ~a.output_id_is_str THEN Raise(f, "TypeError")
                   ELSE [f EXCEPT !.pc = "tiles", !.urls = result.output_urls])
    /\ UNCHANGED <<staging, merged, clock, evars, plan, hcall>>

\* _ensure_outdirs(); head of _download_tiles: _clean_dir(tiles_dir), ts = now
GpCleanTiles(p) ==
    /\ run[p].pc = "tiles"
    /\ LET f == run[p]
           out_id == f.job.actions[f.idx].output_id
       IN  /\ staging' = [staging EXCEPT ![tiles_dir(out_id)] = _clean_dir(@)]
           /\ Step(p, [f EXCEPT !.pc = "download", !.tiles_ts = clock,
                                !.local_tiles = <<>>, !.attempts = <<>>,
                                !.src_files = <<>>,
                                !.stale = staging[tiles_dir(out_id)]])
    /\ clock' = clock + 1
    /\ UNCHANGED <<merged, evars, plan, hcall>>

\* one turn of the loop of _download_tiles
GpDownload(p) ==
    /\ run[p].pc = "download"
    /\ Len(run[p].local_tiles) < Len(run[p].urls)
    /\ LET f == run[p]
           out_id == f.job.actions[f.idx].output_id
           i == Len(f.local_tiles) + 1
       IN  \E outcome \in DownloadOutcomes :
             LET got == _download_file(outcome)
                 file == TileFile(out_id, f.tiles_ts, i, got.size, f.urls[i])
                 h == [f EXCEPT !.attempts = Append(@, outcome)]
             IN  /\ staging' = IF got.size = "none" THEN staging
                               ELSE [staging EXCEPT ![tiles_dir(out_id)] = @ \cup {file}]
                 /\ Step(p, IF got.raised
                            THEN _error(h, "download/merge failed: download")
                            ELSE [h EXCEPT !.local_tiles = Append(@, file)])
    /\ UNCHANGED <<merged, clock, evars, plan, hcall>>

\* _merge_with_gdal up to the VRT: _require_gdal, ts = now, the single-tile
\* copy or gdalbuildvrt
GpMerge(p) ==
    /\ run[p].pc = "download"
    /\ Len(run[p].local_tiles) = Len(run[p].urls)
    /\ LET f == [run[p] EXCEPT !.src_files = run[p].local_tiles, !.merge_ts = _merge_ts(clock)]
           out_id == f.job.actions[f.idx].output_id
       IN  \/ /\ Step(p, _error(f, "download/merge failed: GDAL not found"))
              /\ UNCHANGED <<merged, clock>>
           \/ /\ clock' = clock + 1
              /\ \E outcome \in ToolOutcomes :
                   IF Len(f.src_files) = 1
                   THEN /\ merged' =
                             IF outcome = "failed" THEN merged
                             ELSE WriteFile(merged, MergedFile(out_id, f.merge_ts, "tif",
                                      IF outcome = "ok" THEN "complete" ELSE "partial",
                                      f.tiles_ts))
                        /\ Step(p, IF outcome = "ok"
                                   THEN [f EXCEPT !.pc = "store"]
                                   ELSE _error(f, "download/merge failed: copy"))
                   ELSE /\ merged' =
                             IF outcome = "failed" THEN merged
                             ELSE WriteFile(merged, MergedFile(out_id, f.merge_ts, "vrt",
                                      IF outcome = "ok" THEN "complete" ELSE "partial",
                                      f.tiles_ts))
                        /\ Step(p, IF outcome = "ok"
                                   THEN [f EXCEPT !.pc = "translate"]
                                   ELSE _error(f, "download/merge failed: gdalbuildvrt"))
    /\ UNCHANGED <<staging, evars, plan, hcall>>

\* rest of _merge_with_gdal: gdal_translate writes out_path, the VRT is unlinked
GpTranslate(p) ==
    /\ run[p].pc = "translate"
    /\ LET f == run[p]
           out_id == f.job.actions[f.idx].output_id
           vrt == MergedFile(out_id, f.merge_ts, "vrt", "complete", f.tiles_ts)
       IN  \E outcome \in ToolOutcomes :
             /\ merged' =
                  IF outcome = "ok"
                  THEN Unlink(WriteFile(merged, MergedFile(out_id, f.merge_ts, "tif", "complete",
                                                        f.tiles_ts)), vrt)
                  ELSE IF outcome = "failed" THEN merged
                  ELSE WriteFile(merged, MergedFile(out_id, f.merge_ts, "tif", "partial", f.tiles_ts))
             /\ Step(p, IF outcome = "ok"
                        THEN [f EXCEPT !.pc = "store"]
                        ELSE _error(f, "download/merge failed: gdal_translate"))
    /\ UNCHANGED <<staging, clock, evars, plan, hcall>>

\* outputs[out_id] = final_path, insert_artifact, the optional PostGIS upload
\* (the merged file is removed once uploaded), then the next action or the
\* summary with _finish("success")
GpStore(p) ==
    /\ run[p].pc = "store"
    /\ LET f == run[p]
           out_id == f.job.actions[f.idx].output_id
           final_path == MergedFile(out_id, f.merge_ts, "tif", "complete", f.tiles_ts)
       IN  /\ \E upload \in {"disabled", "table", "no_table", "raised"} :
                merged' = IF upload = "table" THEN Unlink(merged, final_path) ELSE merged
           /\ Step(p, IF f.idx < Len(f.job.actions)
                      THEN [f EXCEPT !.pc = "action", !.idx = @ + 1]
                      ELSE [f EXCEPT !.pc = "returned",
                                     !.result = "Geoprocessing completed:",
                                     !.finish_calls = @ + 1])
    /\ UNCHANGED <<staging, clock, evars, plan, hcall>>

\* the caller has the result (or the exception); the frame is gone
GpDone(p) ==
    /\ run[p].pc \in {"returned", "raised"}
    /\ run' = [run EXCEPT ![p] = IdleFrame]
    /\ UNCHANGED <<ctx_run_id, staging, merged, clock, evars, plan, hcall>>

(***************************************************************************)
(* Specifications                                                          *)
(***************************************************************************)
Init ==
    /\ _INITIALIZED = FALSE
    /\ epc = "idle"
    /\ ereq = NoReq
    /\ ecrs = NoCrs
    /\ egrid = NoGrid
    /\ exports = <<>>
    /\ out_tiles = <<>>
    /\ backend = <<>>
    /\ eerr = "none"
    /\ edetail = NoDetail
    /\ plan = NoPlan
    /\ hcall = NoCall
    /\ run = [p \in Procs |-> IdleFrame]
    /\ ctx_run_id = [p \in Procs |-> "none"]
    /\ staging = [o \in OutIds |-> {}]
    /\ merged = {}
    /\ clock = 1

NextEndpoint ==
    \/ EpReceive
    \/ EpValidate
    \/ EpImage
    \/ EpResolve
    \/ EpGrid
    \/ EpExport
    \/ EpReturn
    \/ EpRespond

\* the plugin service serving requests one after another
SpecEndpoint == Init /\ [][NextEndpoint]_vars

NextGrid == PlanGrid

\* callers of geoprocess are serialized: a call starts when no other runs
Serialized(p) == \A q \in Procs \ {p} : run[q].pc = "idle"

Next ==
    \E p \in Procs :
        \/ Serialized(p) /\ GpCall(p)
        \/ GpExecute(p)
        \/ GpCleanTiles(p)
        \/ GpDownload(p)
        \/ GpMerge(p)
        \/ GpTranslate(p)
        \/ GpStore(p)
        \/ GpDone(p)

\* the agent, one geoprocess call at a time
Spec == Init /\ [][Next]_vars

\* an environment in which jobs are well formed, grids have one row of at
\* most two tiles and every tile download delivers data; the service and the
\* GDAL tools may still fail, and rasters may still be uploaded
SteadyEnvironment ==
    \A p \in Procs :
        LET f == run[p]
        IN  /\ f.job.products \in {"none", "list_of_dicts"}
            /\ \A i \in DOMAIN f.job.actions :
                  /\ f.job.actions[i].kind = "dict"
                  /\ f.job.actions[i].has_name
                  /\ f.job.actions[i].output_id_is_str
                  /\ f.job.actions[i].geoprocess_name.suffix = "_tif"
            /\ Len(f.urls) <= 2
            /\ \A k \in DOMAIN f.urls : f.urls[k].r = 0
            /\ \A k \in DOMAIN f.attempts : f.attempts[k] = "data"

NextRepeat ==
    \E p \in Procs :
        \/ Serialized(p) /\ GpCallWithin(p, MaxClockRepeat) /\ SteadyEnvironment'
        \/ GpExecute(p) /\ SteadyEnvironment'
        \/ GpCleanTiles(p) /\ SteadyEnvironment'
        \/ GpDownload(p) /\ SteadyEnvironment'
        \/ GpMerge(p) /\ SteadyEnvironment'
        \/ GpTranslate(p) /\ SteadyEnvironment'
        \/ GpStore(p) /\ SteadyEnvironment'
        \/ GpDone(p)

\* the agent called again and again in that environment
SpecRepeat == Init /\ [][NextRepeat]_vars

\* geoprocess entered by several callers at once (nothing in geoprocess
\* takes a lock), in that environment
NextInterleaved ==
    \E p \in Procs :
        \/ GpCall(p) /\ SteadyEnvironment'
        \/ GpExecute(p) /\ SteadyEnvironment'
        \/ GpCleanTiles(p) /\ SteadyEnvironment'
        \/ GpDownload(p) /\ SteadyEnvironment'
        \/ GpMerge(p) /\ SteadyEnvironment'
        \/ GpTranslate(p) /\ SteadyEnvironment'
        \/ GpStore(p) /\ SteadyEnvironment'
        \/ GpDone(p)

SpecInterleaved == Init /\ [][NextInterleaved]_vars

\* jobs of well-formed actions, answered with at most two tiles in one row;
\* transfers and tools may fail
SmallJobs ==
    \A p \in Procs :
        LET f == run[p]
        IN  /\ f.job.products \in {"none", "list_of_dicts"}
            /\ \A i \in DOMAIN f.job.actions :
                  /\ f.job.actions[i].kind = "dict"
                  /\ f.job.actions[i].has_name
                  /\ f.job.actions[i].output_id_is_str
            /\ Len(f.urls) <= 2
            /\ \A k \in DOMAIN f.urls : f.urls[k].r = 0

\* geoprocess called, one call at a time, with jobs of up to MaxActions
\* actions that have the time to run to their end
NextSequence ==
    \E p \in Procs :
        \/ Serialized(p) /\ GpCallWithin(p, MaxClock + 1) /\ SmallJobs'
        \/ GpExecute(p) /\ SmallJobs'
        \/ GpCleanTiles(p) /\ SmallJobs'
        \/ GpDownload(p) /\ SmallJobs'
        \/ GpMerge(p) /\ SmallJobs'
        \/ GpTranslate(p) /\ SmallJobs'
        \/ GpStore(p) /\ SmallJobs'
        \/ GpDone(p)

SpecSequence == Init /\ [][NextSequence]_vars

NextScenario == PlanScenario

\* the grid planner on the sample region
SpecScenario == Init /\ [][NextScenario]_vars

NextPayload == SizePayload \/ SizePayloadAgain

\* the payload sizing on every region size of the bounds
SpecPayload == Init /\ [][NextPayload]_vars

NextCalib == LookUpCalibration

\* the calibration lookup on every product, band and metadata reading of the
\* samples
SpecCalib == Init /\ [][NextCalib]_vars

NextMask == MaskPixel

\* the cloud masks on every quality value of QaBits bits
SpecMask == Init /\ [][NextMask]_vars

NextExecutor == ExecuteAction

\* execute_action on every name and every answer of the service
SpecExecutor == Init /\ [][NextExecutor]_vars

NextRepair == CompleteJson \/ CheckLevel \/ LlmReplies

\* check_and_fix_json on every JSON state and every sequence of replies; each
\* level runs to its end and send_message blocks until the reply is there
SpecRepair == Init /\ [][NextRepair]_vars /\ WF_vars(NextRepair)

NextBBox == ParseBBox

\* _parse_bbox on every list of numbers of the samples
SpecBBox == Init /\ [][NextBBox]_vars

\* the grid planner on every input of the bounds
SpecGrid == Init /\ [][NextGrid]_vars

(***************************************************************************)
(* Properties: grid planner                                                *)
(***************************************************************************)
\* interiors of two rectangles <<x0, y0, x1, y1>> do not meet
DisjointInteriors(a, b) ==
    a[3] <= b[1] \/ b[3] <= a[1] \/ a[4] <= b[2] \/ b[4] <= a[2]

\* the unit cell with lower-left corner (x, y) lies in rectangle a
CellIn(x, y, a) == a[1] <= x /\ x + 1 <= a[3] /\ a[2] <= y /\ y + 1 <= a[4]

\* C1: for every projected box, scale > 0 and tile_size >= 1 the rectangles
\* _tile_rects enumerates tile the grid exactly: there are rows*cols of them,
\* two distinct tiles have disjoint interiors, tiles next to each other in a
\* row or a column share a whole edge, and every unit cell of the region's
\* projected bounding box lies in exactly one tile.
C1_TilesExactlyTile ==
    plan.called =>
        LET tiles == plan.grid.tiles
            meta == plan.grid.meta
            b == plan.bbox
        IN  /\ Len(tiles) = meta.rows * meta.cols
            /\ \A i, j \in DOMAIN tiles :
                 i # j => DisjointInteriors(tiles[i].bbox_crs, tiles[j].bbox_crs)
            /\ \A i, j \in DOMAIN tiles :
                 /\ (tiles[i].r = tiles[j].r /\ tiles[j].c = tiles[i].c + 1)
                      => /\ tiles[i].bbox_crs[3] = tiles[j].bbox_crs[1]
                         /\ tiles[i].bbox_crs[2] = tiles[j].bbox_crs[2]
                         /\ tiles[i].bbox_crs[4] = tiles[j].bbox_crs[4]
                 /\ (tiles[i].c = tiles[j].c /\ tiles[j].r = tiles[i].r + 1)
                      => /\ tiles[i].bbox_crs[2] = tiles[j].bbox_crs[4]
                         /\ tiles[i].bbox_crs[1] = tiles[j].bbox_crs[1]
                         /\ tiles[i].bbox_crs[3] = tiles[j].bbox_crs[3]
            /\ \A x \in b[1]..(b[3] - 1), y \in b[2]..(b[4] - 1) :
                 Cardinality({i \in DOMAIN tiles : CellIn(x, y, tiles[i].bbox_crs)}) = 1

\* a box whose edges are off the pixel grid, planned into at least 2 x 2 tiles
C1_Witness ==
    /\ plan.called
    /\ plan.grid.meta.rows >= 2
    /\ plan.grid.meta.cols >= 2
    /\ plan.bbox[1] % plan.scale # 0
    /\ plan.bbox[4] % plan.scale # 0

BandCount(q) ==
    IF IsRgb(q.endpoint) THEN 3
    ELSE IF IsIndex(q.endpoint) THEN 1
    ELSE IF q.bands = 0 THEN ProductBands ELSE q.bands

\* C3: every tile export request carries an explicit scale when the tile's
\* estimated payload width*height*bandCount*4 is at or below the ceiling,
\* and explicit pixel dimensions otherwise.
C3_ExportHonorsCeiling ==
    \A i \in DOMAIN exports :
        LET p == exports[i].params
            est == ereq.tile_size * ereq.tile_size * Max(BandCount(ereq), 1) * bytes_per_sample
        IN  IF est <= limit_bytes
            THEN "scale" \in DOMAIN p
            ELSE "dimensions" \in DOMAIN p

\* C4 as stated: the too-many-tiles error precedes every backend call.
C4_TooManyBeforeAnyBackendCall ==
    eerr = "too_many_tiles" => backend = <<>>

\* C4 amended: the too-many-tiles error precedes every tile export request
\* (no getDownloadURL is sent for a grid above the ceiling); the bounds fetch
\* that the tile count is computed from does precede it.
C4_TooManyBeforeAnyExport ==
    /\ eerr = "too_many_tiles" =>
         /\ exports = <<>>
         /\ \A k \in DOMAIN backend : backend[k] # "getDownloadURL"
         /\ backend # <<>> /\ backend[Len(backend)] = "getInfo:bounds"
    /\ exports # <<>> => Len(egrid.tiles) <= ereq.max_tiles

\* a request rejected for its tile count
C4_Witness ==
    /\ eerr = "too_many_tiles"
    /\ Len(egrid.tiles) > ereq.max_tiles

\* C10: within one batch each tile's export request is issued at most once
\* and in order; a rejected request ends the batch with the one error
\* "export": it is the last request sent, none is sent for a later tile.
C10_NoExportRetry ==
    /\ \A j \in DOMAIN exports :
         /\ exports[j].tile = j
         /\ ~exports[j].ok => /\ j = Len(exports)
                              /\ epc = "error"
                              /\ eerr = "export"
    /\ Len(SelectSeq(backend, LAMBDA c : c = "getDownloadURL")) = Len(exports)
    /\ Len(out_tiles) = Len(SelectSeq(exports, LAMBDA e : e.ok))

\* the second of at least three tiles was rejected
C10_Witness ==
    /\ eerr = "export"
    /\ Len(exports) = 2
    /\ Len(egrid.tiles) >= 3

(***************************************************************************)
(* Properties of the geoprocess agent                                      *)
(***************************************************************************)
OutIdOf(f) == f.job.actions[f.idx].output_id
FailedOutcomes == {"error_status", "connection_lost"}
DownloadFailed == "download/merge failed: download"
MergeFailed == {"download/merge failed: gdalbuildvrt",
                "download/merge failed: gdal_translate"}

\* C5: once a run for an output id has started its batch, the staging
\* directory of that id holds nothing but files of this run (whatever earlier
\* runs, failed ones included, had left there), and every file in the list
\* handed to the merge was downloaded by this run and is none of the files
\* an earlier run left
C5_StagingClearedNoStaleMerged ==
    \A p \in Procs :
        LET f == run[p]
        IN  /\ f.pc \in {"download", "translate", "store"} =>
                 /\ \A t \in staging[OutIdOf(f)] : t.ts = f.tiles_ts
                 /\ staging[OutIdOf(f)] \cap f.stale = {}
            /\ \A i \in DOMAIN f.src_files :
                 /\ f.src_files[i].ts = f.tiles_ts
                 /\ f.src_files[i] \notin f.stale

\* a merge is under way for an id whose staging directory held the remains of
\* an earlier run that had failed midway
C5_Witness ==
    \E p \in Procs :
        /\ run[p].src_files # <<>>
        /\ \E t \in run[p].stale : t.size = "partial"
        /\ \E t \in run[p].stale : t.size = "data"

\* C6: after a multi-tile merge failed (gdalbuildvrt or gdal_translate), no
\* file, partial or not, exists at the final output path of that merge
C6_FailedMergeLeavesNothingAtFinalPath ==
    \A p \in Procs :
        LET f == run[p]
        IN  (f.pc = "returned" /\ f.result \in MergeFailed) =>
              \A m \in merged :
                 ~(m.stem = OutIdOf(f) /\ m.ts = f.merge_ts /\ m.ext = "tif")

\* C7 (state part): once the transfer of tile k has failed, the call has
\* returned the failure, tile k is the last one attempted, no list of tiles
\* was handed to the merge, and tiles 1..k-1 are in the staging directory
C7_FailedTileAbortsBatch ==
    \A p \in Procs :
        LET f == run[p]
        IN  \A k \in DOMAIN f.attempts :
              f.attempts[k] \in FailedOutcomes =>
                 /\ f.pc = "returned"
                 /\ f.result = DownloadFailed
                 /\ Len(f.attempts) = k
                 /\ f.src_files = <<>>
                 /\ Len(f.local_tiles) = k - 1
                 /\ \A i \in 1..(k - 1) : f.local_tiles[i] \in staging[OutIdOf(f)]

\* C7 (step part): a file leaves a staging directory only when a run for
\* the same output id clears it at the start of its batch
C7_OnlyARunForTheIdClears ==
    \A o \in OutIds :
        (staging[o] \ staging'[o] # {}) =>
            \E p \in Procs : /\ run[p].pc = "tiles"
                             /\ OutIdOf(run[p]) = o
                             /\ run'[p].pc = "download"

\* C7: a failed download of tile k ends the batch (no tile k+1..N, no
\* merge) and leaves tiles 1..k-1 in the staging directory, where they stay
\* until a later run for the same output id clears them
C7_FailedTileAbortsBatchSiblingsStay ==
    []C7_FailedTileAbortsBatch /\ [][C7_OnlyARunForTheIdClears]_vars

\* tile 2 of a batch of at least 3 failed after tile 1 was saved
C7_Witness ==
    \E p \in Procs :
        /\ run[p].pc = "returned"
        /\ Len(run[p].urls) >= 3
        /\ Len(run[p].attempts) = 2
        /\ run[p].attempts[2] \in FailedOutcomes
        /\ run[p].local_tiles[1] \in staging[OutIdOf(run[p])]

\* C8: no empty file is in the list of tiles handed to the merge
C8_EmptyFileNeverMerged ==
    \A p \in Procs :
        \A i \in DOMAIN run[p].src_files : run[p].src_files[i].size # "empty"

\* C9: no call of geoprocess ends with an exception leaving it
C9_NeverRaises ==
    \A p \in Procs : run[p].pc # "raised"

(***************************************************************************)
(* Properties of the error paths of the plugin service                     *)
(***************************************************************************)
\* C11: when the backend rejects the export request of a tile, the detail of
\* the error sent to the caller holds the backend's message as it came and
\* the row and the column of that tile
C11_ExportErrorCarriesDetailAndTile ==
    eerr = "export" =>
        LET n == Len(exports)
            t == egrid.tiles[n]
        IN  /\ edetail.exc = exports[n].reply
            /\ {"row", "col"} \subseteq DOMAIN edetail
            /\ edetail.row = t.r
            /\ edetail.col = t.c

Abs(x) == IF x < 0 THEN -x ELSE x

\* C13: a bbox of four numbers with xmin >= xmax or ymin >= ymax is rejected
\* with the dimension error and no region comes back (nothing is reordered)
C13_DegenerateBBoxRejected ==
    (hcall.fn = "_parse_bbox" /\ Len(hcall.parts) = 4) =>
        ((hcall.parts[1] >= hcall.parts[3] \/ hcall.parts[2] >= hcall.parts[4]) =>
            /\ ~hcall.result.ok
            /\ hcall.result.error = "bbox_dimensions")

\* the bbox "10,5,10,20" was parsed
C13_Witness ==
    /\ hcall.fn = "_parse_bbox"
    /\ hcall.parts = <<10, 5, 10, 20>>
    /\ ~hcall.result.ok

\* C14: a bbox with some |x| > 360 or some |y| > 180 never yields a region,
\* and when its values are in order it is rejected as a unit mismatch
C14_OutOfRangeBBoxRejected ==
    (hcall.fn = "_parse_bbox" /\ Len(hcall.parts) = 4) =>
        LET xmin == hcall.parts[1]
            ymin == hcall.parts[2]
            xmax == hcall.parts[3]
            ymax == hcall.parts[4]
        IN  (Abs(xmin) > 360 \/ Abs(xmax) > 360 \/ Abs(ymin) > 180 \/ Abs(ymax) > 180) =>
                /\ ~hcall.result.ok
                /\ (xmin < xmax /\ ymin < ymax) => hcall.result.error = "bbox_units"

(***************************************************************************)
(* Properties of the payload sizing                                        *)
(***************************************************************************)
\* C15: with three bands, a region whose estimated payload is above the
\* ceiling gets dimensions mode, and the payload of the new dimensions,
\* width*height*3*4, is at or below the ceiling
C15_DimensionsFitCeiling ==
    (hcall.fn = "_safe_download_params" /\ hcall.bands_count = 3) =>
        (hcall.w_px * hcall.h_px * 3 * bytes_per_sample > PayloadCeiling =>
            /\ hcall.result.mode = "dimensions"
            /\ hcall.result.w * hcall.result.h * 3 * bytes_per_sample <= PayloadCeiling)

(***************************************************************************)
(* Properties of the grid planner                                          *)
(***************************************************************************)
\* C16: for the region and the scale of a planned grid, the grid planned
\* with any other tile size has the same origin, the same scale and the same
\* crs_transform (and the same crs); rows, cols and tile extents may differ
C16_TileSizeKeepsOriginAndScale ==
    plan.called =>
        \A tile_size \in TileSizes :
            LET other == _tile_rects("EPSG:32720", plan.bbox, plan.scale, tile_size).meta
                meta == plan.grid.meta
            IN  /\ other.origin_x = meta.origin_x
                /\ other.origin_y = meta.origin_y
                /\ other.crs_transform = meta.crs_transform
                /\ other.crs_transform[1] = plan.scale
                /\ other.crs = meta.crs

\* a grid was planned whose rows and cols differ under another tile size
C16_Witness ==
    /\ plan.called
    /\ \E tile_size \in TileSizes :
          LET other == _tile_rects("EPSG:32720", plan.bbox, plan.scale, tile_size).meta
          IN  /\ tile_size # plan.tile_size
              /\ other.rows # plan.grid.meta.rows
              /\ other.cols # plan.grid.meta.cols

\* the least n >= 1 such that n edges of length `edge` reach over `span`
LeastCover(span, edge) ==
    CHOOSE n \in 1..Max(span, 1) :
        /\ n * edge >= span
        /\ \A m \in 1..(n - 1) : m * edge < span

\* C17: for the sample region (about 23.8 km x 24.5 km) at scale 10 with
\* tiles of 1024 pixels (edge 10240 m) the planner gives cols = 3, rows = 3
\* and 9 tiles; cols and rows are the number of tile edges needed to reach
\* from the origin over the aligned extent, and at least 1
C17_SampleRegionIsThreeByThree ==
    (plan.called /\ plan.scale = 10 /\ plan.tile_size = 1024) =>
        LET meta == plan.grid.meta
            g == _align_to_grid(plan.bbox[1], plan.bbox[2], plan.bbox[3], plan.bbox[4], 10)
        IN  /\ meta.tile_w_m = 10240
            /\ meta.tile_h_m = 10240
            /\ meta.cols = 3
            /\ meta.rows = 3
            /\ Len(plan.grid.tiles) = 9
            /\ meta.cols = LeastCover(g.grid_maxx - meta.origin_x, meta.tile_w_m)
            /\ meta.rows = LeastCover(meta.origin_y - g.grid_miny, meta.tile_h_m)

\* the grid of the sample region was planned from an extent of 23.8 km x 24.5 km
C17_Witness ==
    /\ plan.called
    /\ plan.tile_size = 1024
    /\ plan.bbox[3] - plan.bbox[1] = 23800
    /\ plan.bbox[4] - plan.bbox[2] = 24500
    /\ Len(plan.grid.tiles) = 9

(***************************************************************************)
(* Properties of the order of the tiles                                    *)
(***************************************************************************)
\* number of columns of the grid a list of tile URLs came from
ColsOf(urls) == 1 + Max(0, CHOOSE c \in {urls[i].c : i \in DOMAIN urls} :
                              \A i \in DOMAIN urls : urls[i].c <= c)

\* C18: the executor's list of URLs is row-major, north to south and then
\* west to east (position i, from 0, is tile (i div cols, i mod cols)); the
\* k-th file downloaded comes from the k-th URL and has index k; and the
\* list given to the merge is that list of files in that order. (Between the
\* executor's reply for a later action of the job and the start of its
\* download, pc = "tiles", the lists of files are still those of the action
\* before.)
C18_RowMajorOrderKeptToMerge ==
    \A p \in Procs :
        LET f == run[p]
            cols == IF f.urls = <<>> THEN 1 ELSE ColsOf(f.urls)
        IN  /\ \A k \in DOMAIN f.urls :
                 /\ f.urls[k].r = (k - 1) \div cols
                 /\ f.urls[k].c = (k - 1) % cols
            /\ \A j, k \in DOMAIN f.urls :
                 /\ (f.urls[j].r < f.urls[k].r) => f.urls[j].y_top > f.urls[k].y_top
                 /\ (f.urls[j].r = f.urls[k].r /\ j < k) => f.urls[j].x_left < f.urls[k].x_left
            /\ f.pc # "tiles" =>
                 /\ \A k \in DOMAIN f.local_tiles :
                      /\ f.local_tiles[k].index = k
                      /\ f.local_tiles[k].from = f.urls[k]
                 /\ f.src_files # <<>> =>
                      /\ Len(f.src_files) = Len(f.urls)
                      /\ \A k \in DOMAIN f.src_files :
                           /\ f.src_files[k].index = k
                           /\ f.src_files[k].from = f.urls[k]

\* the four files of a grid of two rows and two columns were given to the merge
C18_Witness ==
    \E p \in Procs :
        /\ Len(run[p].src_files) = 4
        /\ run[p].src_files[2].from.r = 0
        /\ run[p].src_files[2].from.c = 1
        /\ run[p].src_files[3].from.r = 1
        /\ run[p].src_files[3].from.c = 0

(***************************************************************************)
(* Properties of the merged rasters                                        *)
(***************************************************************************)
\* a run is storing the raster it has just merged at the path of m
StoringOwn(p, m) ==
    /\ run[p].pc = "store"
    /\ OutIdOf(run[p]) = m.stem
    /\ run[p].merge_ts = m.ts
    /\ run[p].tiles_ts = m.made_from

\* C19 (step part): a merged raster stays as it is under every step of every
\* run, but for the run that produced it removing it once uploaded; and a
\* file a run writes is written where no earlier file is
C19_MergedRasterUntouched ==
    /\ \A m \in merged :
         (m.ext = "tif" /\ m.content = "complete") =>
            \/ m \in merged'
            \/ \E p \in Procs : StoringOwn(p, m)
    /\ \A n \in merged' \ merged :
         \A m \in merged : SamePath(m, n) => m.made_from = n.made_from

\* C19 (state part): the final path of every merged raster carries the
\* timestamp of the run that wrote it, later than that of its tiles
C19_PathCarriesOwnTimestamp ==
    \A m \in merged : m.ts > m.made_from

\* C19: over repeated runs for one output id every merge writes to a path
\* tagged with its own timestamp, and no later run overwrites, truncates or
\* removes the merged raster of an earlier run
C19_LaterRunKeepsEarlierRaster ==
    []C19_PathCarriesOwnTimestamp /\ [][C19_MergedRasterUntouched]_vars

\* two merged rasters of one output id, from two runs, are side by side
C19_Witness ==
    \E m, n \in merged :
        /\ m.stem = n.stem
        /\ m.ts < n.ts
        /\ m.ext = "tif" /\ n.ext = "tif"
        /\ m.content = "complete" /\ n.content = "complete"

\* The product families the calibration table is documented for, read off the
\* product id alone
IsLandsatC2L2(product) ==
    /\ Contains(Upper(product), <<"LANDSAT", "/">>)
    /\ Contains(Upper(product), <<"/", "C02", "/", "T1", "_", "L2">>)
IsSentinel2SR(product) == Contains(Upper(product), <<"COPERNICUS", "/", "S2", "_", "SR">>)
IsModisLST(product) ==
    /\ Contains(Upper(product), <<"MODIS", "/">>)
    /\ Contains(Upper(product), <<"MOD11A1">>) \/ Contains(Upper(product), <<"MYD11A1">>)

\* the documented pair of a band of a product, (1.0, 0.0) outside the families
DocumentedPair(product, band) ==
    IF IsLandsatC2L2(product) /\ StartsWith(band, <<"SR", "_", "B">>)
    THEN [s |-> "2.75e-5", o |-> "-0.2"]
    ELSE IF IsLandsatC2L2(product) /\ StartsWith(band, <<"ST", "_", "B">>)
    THEN [s |-> "0.00341802", o |-> "149.0"]
    ELSE IF IsSentinel2SR(product)
    THEN [s |-> "1e-4", o |-> "0.0"]
    ELSE IF IsModisLST(product) /\ Contains(band, <<"LST", "_">>)
    THEN [s |-> "0.02", o |-> "0.0"]
    ELSE IF IsModisLST(product) /\ Contains(band, <<"Emis", "_">>)
    THEN [s |-> "0.002", o |-> "0.49"]
    ELSE [s |-> "1.0", o |-> "0.0"]

NoUsableMetadata(reading) == _band_metadata(reading) = [s |-> "None", o |-> "None"]

\* C20: when the band's metadata gives neither a scale nor an offset,
\* _band_scale_offset returns the documented pair of the band for a Landsat
\* Collection-2 Level-2 surface-reflectance or thermal band, a Sentinel-2
\* surface-reflectance band, a MODIS land-surface-temperature or emissivity
\* band, and (1.0, 0.0) for any other product.
C20_FallbackPairIsDocumented ==
    (hcall.fn = "_band_scale_offset" /\ NoUsableMetadata(hcall.reading))
        => hcall.result = DocumentedPair(hcall.product, hcall.band)

\* the same restricted to Landsat 8 and 9 among the Landsat products
C20_FallbackPairIsDocumentedLandsat89 ==
    (/\ hcall.fn = "_band_scale_offset"
     /\ NoUsableMetadata(hcall.reading)
     /\ IsLandsatC2L2(hcall.product) =>
            \/ Contains(Upper(hcall.product), <<"LC08">>)
            \/ Contains(Upper(hcall.product), <<"LC09">>))
        => hcall.result = DocumentedPair(hcall.product, hcall.band)

(***************************************************************************)
(* Properties of the cloud masks                                           *)
(***************************************************************************)
\* bit n of a quality value
BitOf(qa, n) == (qa \div (2 ^ n)) % 2
\* the two-bit field of a quality value starting at bit n
FieldOf(qa, n) == (qa \div (2 ^ n)) % 4

MaskedBy(mask) ==
    hcall.fn = "_apply_cloud_mask_by_product" /\ hcall.result.mask = mask

\* C21 as stated: the MODIS soft mask rejects exactly the pixels with the
\* definite-cloud state (bits 0-1 equal to 1) or the cloud-shadow bit (bit 2),
\* whatever the other bits
C21_SoftMaskRejectsOnlyCloudAndShadow ==
    MaskedBy("modis") =>
        (hcall.result.kept <=> (FieldOf(hcall.qa, 0) # 1 /\ BitOf(hcall.qa, 2) = 0))

\* C21: the MODIS soft mask rejects exactly the pixels with the
\* definite-cloud state (bits 0-1 equal to 1), the cloud-shadow bit (bit 2),
\* or a cirrus level of average or high (bits 8-9 equal to 2 or 3); a pixel
\* with a clear, mixed or unknown cloud state, no shadow bit and no or small
\* cirrus is kept, whatever its other bits (the internal cloud flag, bit 10,
\* included)
C21_SoftMaskRejectsCloudShadowHeavyCirrus ==
    MaskedBy("modis") =>
        (hcall.result.kept <=> /\ FieldOf(hcall.qa, 0) # 1
                               /\ BitOf(hcall.qa, 2) = 0
                               /\ FieldOf(hcall.qa, 8) \in {0, 1})

\* a pixel of mixed cloud state, small cirrus and the internal cloud flag set
\* was kept by the MODIS mask
C21_Witness ==
    /\ MaskedBy("modis")
    /\ FieldOf(hcall.qa, 0) = 2
    /\ FieldOf(hcall.qa, 8) = 1
    /\ BitOf(hcall.qa, 10) = 1
    /\ hcall.result.kept

\* C22: for every QA_PIXEL value, the Landsat Collection-2 mask keeps the
\* pixel if and only if the dilated-cloud (bit 1), cloud (bit 3),
\* cloud-shadow (bit 4) and snow (bit 5) flags are 0 and the clear flag
\* (bit 6) is 1; every Landsat Collection-2 Level-2 product is given that mask
C22_LandsatMaskKeepsClearOnly ==
    /\ MaskedBy("landsat") =>
         (hcall.result.kept <=> /\ BitOf(hcall.qa, 1) = 0
                                /\ BitOf(hcall.qa, 3) = 0
                                /\ BitOf(hcall.qa, 4) = 0
                                /\ BitOf(hcall.qa, 5) = 0
                                /\ BitOf(hcall.qa, 6) = 1)
    /\ (hcall.fn = "_apply_cloud_mask_by_product" /\ Contains(hcall.product, <<"LANDSAT">>))
         => hcall.result.mask = "landsat"

\* a clear Landsat 7 pixel with the fill and water bits set was kept
C22_Witness ==
    /\ MaskedBy("landsat")
    /\ Contains(hcall.product, <<"LE07">>)
    /\ hcall.qa = 2 ^ 6 + 2 ^ 7 + 1
    /\ hcall.result.kept

(***************************************************************************)
(* Properties of the endpoints' input validation                           *)
(***************************************************************************)
ValidationErrors == {"bbox_format", "bbox_dimensions", "bbox_units", "date", "reducer"}

\* C23: a request that ends with an input validation error (malformed bbox,
\* invalid date, invalid reducer name) has sent nothing to the compute backend
C23_ValidationBeforeAnyBackendCall ==
    (epc = "error" /\ eerr \in ValidationErrors) => backend = <<>>

(***************************************************************************)
(* Properties of interleaved runs                                          *)
(***************************************************************************)
\* a run has downloaded tiles and not yet handed them to the merge
ListsTiles(f) == f.pc = "download" /\ f.local_tiles # <<>>

\* run p lists a tile for its merge that is no longer in its staging directory
LostTile(p) ==
    /\ ListsTiles(run[p])
    /\ \E i \in DOMAIN run[p].local_tiles :
          run[p].local_tiles[i] \notin staging[OutIdOf(run[p])]

\* one run at a time: every tile a run lists for its merge is in the staging
\* directory of its output id
C24_SerializedRunOwnsItsStaging == \A p \in Procs : ~LostTile(p)

\* a tile a run lists for its merge leaves the staging directory only when
\* another run for the same output id clears the directory
C24_TileLostOnlyToSameIdClear ==
    \A p \in Procs :
        (/\ ListsTiles(run[p])
         /\ \E i \in DOMAIN run[p].local_tiles :
               /\ run[p].local_tiles[i] \in staging[OutIdOf(run[p])]
               /\ run[p].local_tiles[i] \notin staging'[OutIdOf(run[p])])
        => \E q \in Procs \ {p} :
              /\ run[q].pc = "tiles"
              /\ OutIdOf(run[q]) = OutIdOf(run[p])
              /\ run'[q].pc = "download"

\* a staging directory changes only by a step of a run for its output id
C24_OtherIdsUntouched ==
    \A o \in OutIds :
        staging'[o] # staging[o] =>
            \E q \in Procs : /\ run'[q] # run[q]
                             /\ run[q].pc \in {"tiles", "download"}
                             /\ OutIdOf(run[q]) = o

\* C24: with interleaved runs, a tile that a run has downloaded and still
\* lists for its merge is deleted only by the clearing done by another run
\* for the same output id (a state where this has happened is reachable:
\* C24_Witness), and no run changes the staging directory of an output id
\* other than its own
C24_SameIdRunsClobberOtherIdsDoNot ==
    [][C24_TileLostOnlyToSameIdClear /\ C24_OtherIdsUntouched]_vars

\* two runs for the same output id are both downloading, and the later one's
\* clearing has deleted a tile the earlier one lists for its merge
C24_Witness ==
    \E p \in Procs : \E q \in Procs \ {p} :
        /\ LostTile(p)
        /\ run[q].pc = "download"
        /\ OutIdOf(run[q]) = OutIdOf(run[p])
        /\ run[q].tiles_ts > run[p].tiles_ts

(***************************************************************************)
(* Properties of the executor's naming convention                          *)
(***************************************************************************)
\* C26: every geoprocess name the plugin advertises (rgb_single,
\* index_single, rgb_composite, index_composite), given as advertised,
\* resolves to an endpoint: execute_action does not end with "No executor
\* available" for it
C26_AdvertisedNamesResolve ==
    (/\ hcall.fn = "execute_action"
     /\ hcall.name.base \in AdvertisedNames
     /\ hcall.name.suffix = "")
        => hcall.result.error # "No executor available"

(***************************************************************************)
(* Properties of the scale/dimensions switch                               *)
(***************************************************************************)
SizingCalls == {"_safe_download_params", "_safe_download_params again"}

\* the estimated payload of a call
EstBytes(c) == c.w_px * c.h_px * Max(c.bands_count, 1) * bytes_per_sample

C28_ShrunkDimensionsFitCeilingForAnyBands ==
    (hcall.fn \in SizingCalls /\ EstBytes(hcall) > PayloadCeiling) =>
        /\ hcall.result.w >= 1
        /\ hcall.result.h >= 1
        /\ hcall.result.w * hcall.result.h * Max(hcall.bands_count, 1) * bytes_per_sample
              <= PayloadCeiling

(***************************************************************************)
(* Properties of the action loop of geoprocess                             *)
(***************************************************************************)
Completed == "Geoprocessing completed:"

\* C29 (state part): a call that has returned has called _finish exactly
\* once and the current run id is cleared; it returns the summary only after
\* its last action, and a failure while its actions list is at position idx
C29_ReturnedOnceFinished ==
    \A p \in Procs :
        LET f == run[p]
        IN  /\ f.pc = "returned" =>
                 /\ f.finish_calls = 1
                 /\ ctx_run_id[p] = "none"
                 /\ f.result = Completed => f.idx = Len(f.job.actions)
            /\ f.pc \notin {"returned", "idle"} => f.finish_calls = 0

\* C29 (step part): the position in the actions list moves from 1 upwards by
\* one, and only after the action at that position was merged and stored; a
\* call that has returned takes no further step but to hand over its result;
\* and the step on which an action fails removes no merged raster
C29_InOrderStopAtFirstFailure ==
    \A p \in Procs :
        LET f == run[p]
            g == run'[p]
        IN  /\ (f.pc = "idle" /\ g.pc # "idle") => g.idx \in {0, 1}
            /\ (f.pc \notin {"idle", "returned", "raised"} /\ g.idx # f.idx) =>
                  /\ f.pc = "store"
                  /\ g.pc = "action"
                  /\ g.idx = f.idx + 1
            /\ (f.pc = "action" /\ g.pc = "tiles") => g.idx = f.idx
            /\ (f.pc = "returned" /\ g # f) => g = IdleFrame
            /\ (f.pc \notin {"returned", "idle"} /\ g.pc = "returned" /\ g.result # Completed) =>
                  /\ g.idx = f.idx
                  /\ \A m \in merged : m.content = "complete" /\ m.ext = "tif" => m \in merged'

\* C29: geoprocess runs the actions in list order and stops at the first
\* that fails, returning its failure string, running no later action and
\* leaving the merged rasters of earlier actions on disk; every return,
\* success or error, has called _finish exactly once and cleared the run id
C29_ActionsInOrderStopAtFirstFailure ==
    []C29_ReturnedOnceFinished /\ [][C29_InOrderStopAtFirstFailure]_vars

\* the second of two actions has failed after the first was merged and
\* stored: its failure was returned and the first action's raster is on disk
C29_Witness ==
    \E p \in Procs :
        LET f == run[p]
        IN  /\ f.pc = "returned"
            /\ Len(f.job.actions) = 2
            /\ f.idx = 2
            /\ f.result = DownloadFailed
            /\ f.finish_calls = 1
            /\ \E m \in merged : /\ m.stem = f.job.actions[1].output_id
                                 /\ m.ext = "tif"
                                 /\ m.content = "complete"

(***************************************************************************)
(* Properties of check_and_fix_json                                        *)
(***************************************************************************)
Repairing == hcall.fn = "check_and_fix_json"
Ended == Repairing /\ hcall.pc \in {"returned", "raised"}

\* the repair requests sent for one normalized error kind
RequestsFor(key) ==
    Cardinality({i \in 1 .. Len(hcall.sent) : _normalize_error_key(hcall.sent[i]) = key})

\* the bounds on the repair requests
RequestsBounded ==
    Repairing =>
        /\ Len(hcall.sent) <= max_hierarchy
        /\ \A m \in ErrorMessages :
              RequestsFor(_normalize_error_key(m)) <= max_hierarchy_per_error

\* the three ways to end of the claim: a state that passes is returned, the
\* hierarchy limit raises, or an error kind out of attempts is given up and
\* the state is returned with its fault
ReturnedValid ==
    Ended /\ hcall.pc = "returned" /\ hcall.result.check = "passes"
RaisedAtLimit ==
    /\ Ended /\ hcall.pc = "raised" /\ hcall.error = HierarchyReached
    /\ Len(hcall.sent) = max_hierarchy
GaveUp ==
    /\ Ended /\ hcall.pc = "returned" /\ hcall.result.check = "ValueError"
    /\ hcall.result = hcall.state
    /\ RequestsFor(_normalize_error_key(hcall.result.msg)) = max_hierarchy_per_error
\* the two further ways: the reply to a repair request holds no wrapper JSON,
\* or the state to validate is no mapping
RaisedOnReply ==
    /\ Ended /\ hcall.pc = "raised" /\ hcall.error = NoWrapper
    /\ Len(hcall.sent) >= 1
RaisedTypeError ==
    Ended /\ hcall.pc = "raised" /\ hcall.error = "TypeError"

\* C30 as stated: check_and_fix_json sends at most max_hierarchy repair
\* requests, at most max_hierarchy_per_error for one normalized error kind,
\* and it ends only by returning a valid state, by raising at the hierarchy
\* limit, or by giving up on an error kind that used its attempts
C30_EndsInOneOfThreeWays ==
    /\ RequestsBounded
    /\ Ended => (ReturnedValid \/ RaisedAtLimit \/ GaveUp)

C30_Endings ==
    /\ RequestsBounded
    /\ Ended => (ReturnedValid \/ RaisedAtLimit \/ GaveUp \/ RaisedOnReply
                    \/ RaisedTypeError)

\* C30 amended: check_and_fix_json always ends, having sent at most
\* max_hierarchy repair requests and at most max_hierarchy_per_error for one
\* normalized error kind; it ends by returning a valid state, by raising at
\* the hierarchy limit, by giving up on an error kind that used its attempts,
\* or by raising on a reply without a wrapper JSON or on a state that is no
\* mapping
C30_TerminatesWithBoundedRequests ==
    []C30_Endings /\ <>Ended

\* the three first requests were for one error kind, the LLM answered each
\* with a state of the same fault, and the fourth level gave up and returned
\* that state
C30_Witness ==
    /\ GaveUp
    /\ Len(hcall.sent) = max_hierarchy_per_error
    /\ hcall.hierarchy = max_hierarchy_per_error

=============================================================================
